---- MODULE Spec2Model ----
(***************************************************************************)
(* Workout editor (WorkoutEditor in src/App.tsx): the working copy of one  *)
(* record, its hydration from the in-memory collection, the debounced      *)
(* autosave, the explicit save paths, and the optimistic collection of     *)
(* GymProvider with its remote table.                                      *)
(*                                                                         *)
(* One action is one browser task: an event handler, a timer callback or   *)
(* the completion of a fetch, followed by the render it causes and the     *)
(* effects of that render, in the order the component declares them.       *)
(* Identifiers produced by generateId are unique, so an exercise or a set  *)
(* is named by its position in its list.  A timestamp is a whole number of *)
(* seconds; null is 0, which the code's truthiness tests treat alike.      *)
(* The model follows one editor instance from its mount to its unmount,    *)
(* over a remote table that holds a record of an earlier session.          *)
(***************************************************************************)
EXTENDS Integers, Sequences, FiniteSets, TLC

VARIABLES
    workouts,          \* GymProvider: the in-memory collection (an array)
    remote,            \* the remote table 'workouts' (rows, one per id)
    fetched,           \* fetchData: the select's answer on its way back
    mounted,           \* a WorkoutEditor instance is mounted
    id,                \* useParams().id of the mounted editor
    workout,           \* useState<Workout>: the working copy
    showReport,        \* useState: the session report modal is open
    loadedIdRef,       \* useRef: which identity is hydrated
    isHydratingRef,    \* useRef
    isDirtyRef,        \* useRef
    editSeqRef,        \* useRef
    autosaveTimerRef,  \* useRef: handle of the last debounce timer, 0 = null
    timers,            \* pending debounce timeouts of the editor
    now,               \* Date.now(), in milliseconds
    disposed,          \* the editor instance has been unmounted
    routeChanges,      \* how often the instance's route has changed
    ops,               \* calls on the collection made by the last step, each
                       \* with the step that made it
    lp,                \* one useLongPress detector, on a row of a list view
    ranSeconds,        \* history: seconds the clock advanced while the
                       \* working copy's timer was running
    sw,                \* one useSwipe detector
    remoteUp,          \* requests to the remote table succeed
    si,                \* SwipeableItem: state and refs of a list item
    inflight           \* requests to the remote table on their way to it

vars == << workouts, remote, fetched, mounted, id, workout, showReport,
           loadedIdRef, isHydratingRef, isDirtyRef, editSeqRef,
           autosaveTimerRef, timers, now, disposed, routeChanges, ops, lp,
           ranSeconds, sw, remoteUp, si,
                    inflight >>

----------------------------------------------------------------------------
\* Bounds of the model.

MaxEdits == 2
MaxExercises == 1
MaxSets == 2
MaxRouteChanges == 2
MaxClock == 4

\* Steps of the clock during the drags of a list item.
MaxDragTicks == 1
SeedElapsed == 2

\* Requests sent to the remote table by the views of a loaded collection.
MaxWrites == 3

\* Inputs.
Texts == {0, 1}          \* contents of the title and of the note
Numbers == {0, 1}        \* weights and repetitions
GenIds == << "g1", "g2" >>   \* what generateId can return

----------------------------------------------------------------------------
\* Values.

NullRef == "null"

\* Date.now() counts milliseconds, elapsedSeconds counts seconds.
MsPerSecond == 1000
NewRoute == "new"
ExistingId == "x"

DefaultSet == [weight |-> 0, reps |-> 0, completed |-> FALSE]

NewInstance == [sets |-> << DefaultSet >>]

\* date is formatDate(new Date()): 0 is today.
NewWorkout(i) ==
    [id |-> i, date |-> 0, title |-> 0, note |-> 0, exercises |-> << >>,
     completed |-> FALSE, elapsedSeconds |-> 0, startTimestamp |-> 0]

\* A record saved in an earlier session: one exercise, completed or not.
SeedWorkout(c) ==
    [NewWorkout(ExistingId) EXCEPT !.exercises = << NewInstance >>,
                                   !.completed = c]

----------------------------------------------------------------------------
\* The collection and the remote table.

Exists(ws, i) == \E k \in 1..Len(ws) : ws[k].id = i

Find(ws, i) == ws[CHOOSE k \in 1..Len(ws) :
                     /\ ws[k].id = i
                     /\ \A j \in 1..(k - 1) : ws[j].id # i]

IdsOf(ws) == {ws[k].id : k \in 1..Len(ws)}

Upsert(rows, w) == {r \in rows : r.id # w.id} \cup {w}

DeleteRow(rows, i) == {r \in rows : r.id # i}

\* The awaited request to the remote table: its outcome is not looked at.
RemoteWrite(s, rows) == IF s.remoteUp THEN rows ELSE s.remote

IdOrder == << ExistingId >> \o GenIds

RECURSIVE RowsInOrder(_, _)
RowsInOrder(rows, k) ==
    IF k > Len(IdOrder) THEN << >>
    ELSE LET here == {r \in rows : r.id = IdOrder[k]}
         IN (IF here = {} THEN << >> ELSE << CHOOSE r \in here : TRUE >>)
            \o RowsInOrder(rows, k + 1)

\* Variant: an addWorkout that undoes the optimistic insert when the remote
\* write fails.
addWorkoutRollingBack(s, w) ==
    [s EXCEPT !.workouts = IF s.remoteUp THEN Append(@, w) ELSE @,
              !.remote = RemoteWrite(s, Upsert(@, w)),
              !.ops = Append(@, [op |-> "add", w |-> w, by |-> ""])]

addWorkout(s, w) ==
    [s EXCEPT !.workouts = Append(@, w),
              !.remote = RemoteWrite(s, Upsert(@, w)),
              !.ops = Append(@, [op |-> "add", w |-> w, by |-> ""])]

updateWorkout(s, w) ==
    [s EXCEPT !.workouts = [k \in 1..Len(@) |-> IF @[k].id = w.id THEN w ELSE @[k]],
              !.remote = RemoteWrite(s, Upsert(@, w)),
              !.ops = Append(@, [op |-> "update", w |-> w, by |-> ""])]

\* fetchData's setWorkouts(parsedWorkouts).
setWorkouts(s, rows) ==
    [s EXCEPT !.workouts = rows,
              !.ops = Append(@, [op |-> "set", w |-> [id |-> NullRef], by |-> ""])]

deleteWorkout(s, i) ==
    [s EXCEPT !.workouts = SelectSeq(@, LAMBDA r : r.id # i),
              !.remote = RemoteWrite(s, DeleteRow(@, i)),
              !.ops = Append(@, [op |-> "delete", w |-> [id |-> i], by |-> ""])]

----------------------------------------------------------------------------
\* The requests to the remote table that have been sent and have not
\* reached it: issued counts the requests sent, each pending request is a
\* store call c with its number n.
NoneInFlight == [issued |-> 0, pending |-> {}]

\* Identifiers in use: those of the records held anywhere in the state.
UsedIds(s) ==
    IdsOf(s.workouts) \cup {r.id : r \in s.remote} \cup IdsOf(fetched.rows)
        \cup {s.workout.id} \cup {t.w.id : t \in s.timers}
        \cup {s.id, s.loadedIdRef}
        \cup {m.c.w.id : m \in inflight.pending}

HasFreshId(s) == \E n \in 1..Len(GenIds) : GenIds[n] \notin UsedIds(s)

\* generateId returns an identifier that is in use nowhere; which one is
\* immaterial, identifiers being compared for equality only.
generateId(s) ==
    GenIds[CHOOSE n \in 1..Len(GenIds) :
               /\ GenIds[n] \notin UsedIds(s)
               /\ \A m \in 1..(n - 1) : GenIds[m] \in UsedIds(s)]

\* The editor's state as one record, so that a handler, the render and the
\* effects compose.  queued holds the setWorkout an effect has asked for.

Cur ==
    [workouts |-> workouts, remote |-> remote, remoteUp |-> remoteUp, mounted |-> mounted, id |-> id,
     workout |-> workout, showReport |-> showReport,
     loadedIdRef |-> loadedIdRef, isHydratingRef |-> isHydratingRef,
     isDirtyRef |-> isDirtyRef, editSeqRef |-> editSeqRef,
     autosaveTimerRef |-> autosaveTimerRef, timers |-> timers,
     disposed |-> disposed, routeChanges |-> routeChanges,
     ops |-> << >>, queued |-> << >>]

Commit(s, name) ==
    /\ workouts' = s.workouts
    /\ remote' = s.remote
    /\ mounted' = s.mounted
    /\ id' = s.id
    /\ workout' = s.workout
    /\ showReport' = s.showReport
    /\ loadedIdRef' = s.loadedIdRef
    /\ isHydratingRef' = s.isHydratingRef
    /\ isDirtyRef' = s.isDirtyRef
    /\ editSeqRef' = s.editSeqRef
    /\ autosaveTimerRef' = s.autosaveTimerRef
    /\ timers' = s.timers
    /\ disposed' = s.disposed
    /\ routeChanges' = s.routeChanges
    /\ ops' = [k \in 1..Len(s.ops) |-> [s.ops[k] EXCEPT !.by = name]]

\* Variant: a markDirty that does not count the edit.
markDirtyUncounted(s) == [s EXCEPT !.isDirtyRef = TRUE]

markDirty(s) == [s EXCEPT !.isDirtyRef = TRUE, !.editSeqRef = @ + 1]

\* saveWorkoutToContext closes over the workouts of the render that made it;
\* exists is its workouts.some(..) on that collection.
saveWorkoutToContext(s, w, exists) ==
    IF exists THEN updateWorkout(s, w) ELSE addWorkout(s, w)

\* useEffect(.., [id, workouts]).
\* Variant: the hydration of an existing identity without the dirty check.
HydrationEffectIgnoringDirty(s) ==
    IF s.id = NewRoute
    THEN IF s.loadedIdRef = NewRoute THEN s
         ELSE [s EXCEPT !.isHydratingRef = TRUE,
                        !.isDirtyRef = FALSE,
                        !.queued = << NewWorkout(generateId(s)) >>,
                        !.loadedIdRef = NewRoute]
    ELSE IF s.loadedIdRef = s.id THEN s
    ELSE IF ~Exists(s.workouts, s.id) THEN s
    ELSE [s EXCEPT !.isHydratingRef = TRUE,
                   !.queued = << Find(s.workouts, s.id) >>,
                   !.loadedIdRef = s.id,
                   !.isDirtyRef = FALSE]

\* Variant: the hydration of 'new' without the "already loaded" return.
HydrationEffectReinit(s) ==
    IF s.id = NewRoute
    THEN IF ~HasFreshId(s) THEN s
         ELSE [s EXCEPT !.isHydratingRef = TRUE,
                        !.isDirtyRef = FALSE,
                        !.queued = << NewWorkout(generateId(s)) >>,
                        !.loadedIdRef = NewRoute]
    ELSE IF s.loadedIdRef = s.id THEN s
    ELSE IF s.isDirtyRef THEN s
    ELSE IF ~Exists(s.workouts, s.id) THEN s
    ELSE [s EXCEPT !.isHydratingRef = TRUE,
                   !.queued = << Find(s.workouts, s.id) >>,
                   !.loadedIdRef = s.id,
                   !.isDirtyRef = FALSE]

\* Variant: a hydration that does not raise isHydrating.
HydrationEffectUnflagged(s) ==
    IF s.id = NewRoute
    THEN IF s.loadedIdRef = NewRoute THEN s
         ELSE [s EXCEPT !.isDirtyRef = FALSE,
                        !.queued = << NewWorkout(generateId(s)) >>,
                        !.loadedIdRef = NewRoute]
    ELSE IF s.loadedIdRef = s.id THEN s
    ELSE IF s.isDirtyRef THEN s
    ELSE IF ~Exists(s.workouts, s.id) THEN s
    ELSE [s EXCEPT !.queued = << Find(s.workouts, s.id) >>,
                   !.loadedIdRef = s.id,
                   !.isDirtyRef = FALSE]

HydrationEffect(s) ==
    IF s.id = NewRoute
    THEN IF s.loadedIdRef = NewRoute THEN s
         ELSE [s EXCEPT !.isHydratingRef = TRUE,
                        !.isDirtyRef = FALSE,
                        !.queued = << NewWorkout(generateId(s)) >>,
                        !.loadedIdRef = NewRoute]
    ELSE IF s.loadedIdRef = s.id THEN s
    ELSE IF s.isDirtyRef THEN s
    ELSE IF ~Exists(s.workouts, s.id) THEN s
    ELSE [s EXCEPT !.isHydratingRef = TRUE,
                   !.queued = << Find(s.workouts, s.id) >>,
                   !.loadedIdRef = s.id,
                   !.isDirtyRef = FALSE]

\* Variant: a clearTimeout that cancels nothing.
clearTimeoutNoop(ts, h) == ts

clearTimeout(ts, h) == {t \in ts : t.h # h}

\* The record, in ops, of a clearTimeout that cancelled a pending timer.
Cancelled(s, ts) ==
    IF ts = s.timers THEN s.ops
    ELSE Append(s.ops, [op |-> "cancel",
                        w |-> (CHOOSE t \in s.timers \ ts : TRUE).w, by |-> ""])

\* window.setTimeout returns a handle no pending timer has.
FreshHandle(ts) ==
    CHOOSE h \in 1..(Cardinality(ts) + 1) : \A t \in ts : t.h # h

\* The cleanup the autosave effect returned; it runs before the effect runs
\* again and at unmount.  A run that returned early left no timer pending.
AutosaveCleanup(s) ==
    LET kept == IF s.autosaveTimerRef # 0
                THEN clearTimeout(s.timers, s.autosaveTimerRef) ELSE s.timers
    IN [s EXCEPT !.timers = kept, !.ops = Cancelled(s, kept)]

\* useEffect(.., [workout]): the debounced autosave.
AutosaveEffect(s) ==
    IF s.isHydratingRef THEN s
    ELSE IF ~s.isDirtyRef THEN s
    ELSE IF Len(s.workout.exercises) = 0 THEN s
    ELSE LET kept == IF s.autosaveTimerRef # 0
                     THEN clearTimeout(s.timers, s.autosaveTimerRef)
                     ELSE s.timers
             h == FreshHandle(kept)
         IN [s EXCEPT !.timers = kept \cup
                          {[h |-> h, seq |-> s.editSeqRef, w |-> s.workout,
                            exists |-> Exists(s.workouts, s.workout.id)]},
                      !.autosaveTimerRef = h,
                      !.ops = Cancelled(s, kept)]

\* The render after a step and its effects: the hydration effect when id or
\* workouts changed, the autosave effect when workout changed, and, when the
\* hydration effect called setWorkout, the render that follows it.
Render(s, workoutChanged, depsChanged) ==
    IF ~s.mounted THEN s ELSE
    LET s1 == IF depsChanged THEN HydrationEffect(s) ELSE s
        s2 == IF workoutChanged THEN AutosaveEffect(AutosaveCleanup(s1)) ELSE s1
    IN IF s2.queued = << >> THEN s2
       ELSE AutosaveEffect(AutosaveCleanup(
                [s2 EXCEPT !.workout = s2.queued[1], !.queued = << >>]))

\* Unmount: the autosave cleanup runs and the instance's state is gone.
Dispose(s) ==
    [AutosaveCleanup(s) EXCEPT
        !.mounted = FALSE, !.disposed = TRUE, !.id = NullRef, !.workout = NewWorkout(NullRef),
        !.showReport = FALSE, !.loadedIdRef = NullRef,
        !.isHydratingRef = FALSE, !.isDirtyRef = FALSE, !.editSeqRef = 0,
        !.autosaveTimerRef = 0, !.routeChanges = 0]

----------------------------------------------------------------------------
\* useLongPress.  The detector sits on a row of a list view, which is
\* mounted while the editor is not.  seen is the startLongPress of the last
\* render, the value the handlers and cancel close over.  longPresses and
\* taps count the calls of callback and onClick since the last pointer-down;
\* moved and left record that, since the last pointer-down, the pointer has
\* moved beyond the tolerance before the hold timer fired, or has left;
\* cancelled records that the browser has cancelled the pointer since then.

MoveTolerance == 10

Coordinates == {0, 10, 11}

NoPos == << >>

Abs(n) == IF n >= 0 THEN n ELSE -n

\* The pointer at p is more than the tolerance away from q on an axis.
Displaced(p, q) ==
    Abs(p[1] - q[1]) > MoveTolerance \/ Abs(p[2] - q[2]) > MoveTolerance

LpInit ==
    [mounted |-> TRUE, startLongPress |-> FALSE, seen |-> FALSE,
     timerRef |-> 0, timers |-> {}, startPos |-> NoPos,
     longPresses |-> 0, taps |-> 0, moved |-> FALSE, left |-> FALSE,
     cancelled |-> FALSE]

LpFreshHandle(hs) == CHOOSE h \in 1..(Cardinality(hs) + 1) : h \notin hs

\* The cleanup of the timer effect: clearTimeout(timerRef.current).
lpCleanup(l) == [l EXCEPT !.timers = @ \ {l.timerRef}]

\* The body of the timer effect.
\* Variant: an effect that does not keep the timer's handle.
lpEffectForgettingHandle(l) ==
    IF l.startLongPress
    THEN [l EXCEPT !.timers = @ \cup {LpFreshHandle(l.timers)}]
    ELSE [l EXCEPT !.timers = @ \ {l.timerRef}]

lpEffect(l) ==
    IF l.startLongPress
    THEN LET h == LpFreshHandle(l.timers)
         IN [l EXCEPT !.timers = @ \cup {h}, !.timerRef = h]
    ELSE [l EXCEPT !.timers = @ \ {l.timerRef}]

\* A render of the row: callback is a new function at every render, so the
\* effect's cleanup and body run again.
lpRender(l) == lpEffect(lpCleanup([l EXCEPT !.seen = l.startLongPress]))

\* A handler's setStartLongPress(v): a render follows when the state changes.
lpSetState(l, v) ==
    IF l.startLongPress = v /\ l.seen = v THEN l
    ELSE lpRender([l EXCEPT !.startLongPress = v])

\* Variant: a cancel that clears the timer and leaves the state armed.
cancelKeepingArmed(l) ==
    IF l.seen THEN [l EXCEPT !.timers = @ \ {l.timerRef}] ELSE l

cancel(l) ==
    IF l.seen
    THEN lpSetState([l EXCEPT !.timers = @ \ {l.timerRef}], FALSE)
    ELSE l

\* Variant: a move that must exceed the tolerance on both axes.
FarOnBothAxes(p, q) ==
    LET moveX == IF p[1] >= q[1] THEN p[1] - q[1] ELSE q[1] - p[1]
        moveY == IF p[2] >= q[2] THEN p[2] - q[2] ELSE q[2] - p[2]
    IN moveX > MoveTolerance /\ moveY > MoveTolerance

Far(p, q) ==
    LET moveX == IF p[1] >= q[1] THEN p[1] - q[1] ELSE q[1] - p[1]
        moveY == IF p[2] >= q[2] THEN p[2] - q[2] ELSE q[2] - p[2]
    IN moveX > MoveTolerance \/ moveY > MoveTolerance

onPointerDown(l, p) ==
    lpSetState([l EXCEPT !.startPos = p, !.longPresses = 0, !.taps = 0,
                         !.moved = FALSE, !.left = FALSE,
                         !.cancelled = FALSE], TRUE)

onPointerMove(l, p) ==
    IF l.seen /\ l.startPos # NoPos /\ Far(p, l.startPos) THEN cancel(l) ELSE l

onPointerUp(l) ==
    LET l1 == IF l.seen
              THEN IF l.timerRef # 0
                   THEN [l EXCEPT !.timers = @ \ {l.timerRef}, !.taps = @ + 1]
                   ELSE l
              ELSE l
        l2 == [l1 EXCEPT !.startPos = NoPos]
    IN IF l.seen THEN lpSetState(l2, FALSE) ELSE l2

\* pointercancel: the object the hook returns has onPointerDown,
\* onPointerMove, onPointerUp and onPointerLeave and no onPointerCancel, so
\* no code of the hook runs.
onPointerCancel(l) == l

\* The hold timer's callback: callback(), then setStartLongPress(false),
\* whose render comes in a later task.
lpTimerFire(l, h) ==
    [l EXCEPT !.timers = @ \ {h}, !.longPresses = @ + 1,
              !.startLongPress = IF l.mounted THEN FALSE ELSE @]

\* Unmount of the row: the effect's cleanup runs.
lpUnmount(l) ==
    [lpCleanup(l) EXCEPT !.mounted = FALSE, !.startLongPress = FALSE,
                         !.seen = FALSE, !.timerRef = 0, !.startPos = NoPos,
                         !.longPresses = 0, !.taps = 0, !.moved = FALSE,
                         !.left = FALSE, !.cancelled = FALSE]

----------------------------------------------------------------------------
\* SwipeableItem.  Lengths are in thousandths of a pixel, times in ms.

Px == 1000

ACTION_WIDTH == 128 * Px

Max(a, b) == IF a >= b THEN a ELSE b

Min(a, b) == IF a <= b THEN a ELSE b

OPEN_THRESHOLD == Max(18 * Px, (ACTION_WIDTH * 18) \div 100)

\* 0.55 px/ms.
VELOCITY_OPEN == (55 * Px) \div 100

\* The noise threshold of the direction lock.
LockNoise == 6 * Px

\* clientX and clientY of the pointer events: multiples of 0.004 px, so
\* that dx * 1.25 is a whole number of thousandths.
RevealXs == {0, 17632, 19232, 120000}

RevealYs == {0, 8000}

\* The step of the clock between two events of a drag, in ms.
DragTick == 50

\* raf says an animation frame is requested; its callback would set offsetX
\* to the clamped offset of the last setOffset, which is offsetXRef, every
\* setOffset cancelling the frame before it.  called is what the last event
\* has called: onSwipeRight ("copy"),
\* onSwipeLeft ("delete"); stopped says the last click was stopped from
\* reaching the children; pressed says the pointer is down on the row.
SiInit ==
    [offsetX |-> 0, offsetXRef |-> 0, isDragging |-> FALSE,
     lockedAxis |-> "none", start |-> << 0, 0 >>, startTime |-> 0,
     baseOffset |-> 0, raf |-> FALSE, called |-> << >>, stopped |-> FALSE,
     pressed |-> FALSE]

\* What every event starts from: nothing called yet.
Quiet(s) == [s EXCEPT !.called = << >>, !.stopped = FALSE]

\* Variant: the rubber band without the clamp that follows it.
setOffsetRubberBand(s, x) ==
    LET v1 == IF x > ACTION_WIDTH
              THEN ACTION_WIDTH + ((x - ACTION_WIDTH) * 12) \div 100 ELSE x
        v == IF v1 < -ACTION_WIDTH
             THEN -ACTION_WIDTH + ((v1 + ACTION_WIDTH) * 12) \div 100 ELSE v1
    IN [s EXCEPT !.offsetXRef = v, !.raf = TRUE]

\* Variant: a setOffset that clamps on the left only.
setOffsetClampingLeft(s, x) ==
    LET v1 == IF x > ACTION_WIDTH
              THEN ACTION_WIDTH + ((x - ACTION_WIDTH) * 12) \div 100 ELSE x
        v == IF v1 < -ACTION_WIDTH
             THEN -ACTION_WIDTH + ((v1 + ACTION_WIDTH) * 12) \div 100 ELSE v1
        clamped == Max(-ACTION_WIDTH, v)
    IN [s EXCEPT !.offsetXRef = clamped, !.raf = TRUE]

setOffset(s, x) ==
    LET v1 == IF x > ACTION_WIDTH
              THEN ACTION_WIDTH + ((x - ACTION_WIDTH) * 12) \div 100 ELSE x
        v == IF v1 < -ACTION_WIDTH
             THEN -ACTION_WIDTH + ((v1 + ACTION_WIDTH) * 12) \div 100 ELSE v1
        clamped == Max(-ACTION_WIDTH, Min(ACTION_WIDTH, v))
    IN [s EXCEPT !.offsetXRef = clamped, !.raf = TRUE]

\* The animation frame setOffset has requested: setOffsetX(clamped).
animationFrame(s) == [s EXCEPT !.offsetX = s.offsetXRef, !.raf = FALSE]

close(s) == setOffset(s, 0)

openLeft(s) == setOffset(s, -ACTION_WIDTH)

openRight(s) == setOffset(s, ACTION_WIDTH)

handlePointerDown(s, p, t) ==
    [s EXCEPT !.start = p, !.startTime = t, !.baseOffset = s.offsetXRef,
              !.lockedAxis = "none", !.isDragging = TRUE]

\* Variant: a move that decides the lock again whatever the lock is.
handlePointerMoveRelocking(s, p) ==
    LET dx == p[1] - s.start[1]
        dy == p[2] - s.start[2]
        adx == Abs(dx)
        ady == Abs(dy)
    IN IF ~s.isDragging THEN s
       ELSE IF adx < LockNoise /\ ady < LockNoise THEN s
       ELSE IF adx * 10 > ady * 12
       THEN IF s.lockedAxis = "x"
            THEN setOffset(s, s.baseOffset + (dx * 125) \div 100)
            ELSE [s EXCEPT !.lockedAxis = "x"]
       ELSE [s EXCEPT !.lockedAxis = "y"]

\* The move that locks the axis does not move the row: it still sees no
\* lock.
handlePointerMove(s, p) ==
    LET dx == p[1] - s.start[1]
        dy == p[2] - s.start[2]
        adx == Abs(dx)
        ady == Abs(dy)
    IN IF ~s.isDragging THEN s
       ELSE IF s.lockedAxis = "none"
       THEN IF adx < LockNoise /\ ady < LockNoise THEN s
            ELSE IF adx * 10 > ady * 12
            THEN [s EXCEPT !.lockedAxis = "x"]
            ELSE [s EXCEPT !.lockedAxis = "y"]
       ELSE IF s.lockedAxis = "x"
       THEN setOffset(s, s.baseOffset + (dx * 125) \div 100)
       ELSE s

\* Variant: a snap decided by the offset alone.
SnapByOffsetOnly(s, t) ==
    IF s.offsetXRef > OPEN_THRESHOLD THEN ACTION_WIDTH
    ELSE IF s.offsetXRef < -OPEN_THRESHOLD THEN -ACTION_WIDTH
    ELSE 0

\* The resting offset handlePointerUp chooses under the horizontal lock.
Snap(s, t) ==
    LET x == s.offsetXRef
        dt == Max(1, t - s.startTime)
        dx == x - s.baseOffset
        fast == Abs(dx) > VELOCITY_OPEN * dt
    IN IF x > OPEN_THRESHOLD \/ (dx > 12 * Px /\ fast) THEN ACTION_WIDTH
       ELSE IF x < -OPEN_THRESHOLD \/ (dx < -(12 * Px) /\ fast)
       THEN -ACTION_WIDTH
       ELSE 0

\* Variant: a release that acts when it opens the row, as a swipe past the
\* threshold does in the component's earlier form (src/App.tsx:2461-2471).
handlePointerUpActing(s, t) ==
    IF ~s.isDragging THEN s
    ELSE LET s1 == [s EXCEPT !.isDragging = FALSE, !.lockedAxis = "none"]
             to == Snap(s, t)
         IN IF s.lockedAxis # "x"
            THEN IF s.offsetXRef # 0 THEN close(s1) ELSE s1
            ELSE [setOffset(s1, to) EXCEPT
                    !.called = IF to = ACTION_WIDTH THEN Append(@, "copy")
                               ELSE IF to = -ACTION_WIDTH
                               THEN Append(@, "delete") ELSE @]

handlePointerUp(s, t) ==
    IF ~s.isDragging THEN s
    ELSE LET s1 == [s EXCEPT !.isDragging = FALSE, !.lockedAxis = "none"]
         IN IF s.lockedAxis # "x"
            THEN IF s.offsetXRef # 0 THEN close(s1) ELSE s1
            ELSE setOffset(s1, Snap(s, t))

onClickCapture(s) ==
    IF s.offsetXRef # 0 THEN [close(s) EXCEPT !.stopped = TRUE] ELSE s

\* Variant: a copy button that is dead during a drag.
copyClickUnlessDragging(s) ==
    IF s.isDragging THEN s ELSE close([s EXCEPT !.called = Append(@, "copy")])

\* The copy button: onSwipeRight(); close().
copyClick(s) == close([s EXCEPT !.called = Append(@, "copy")])

\* The delete button: onSwipeLeft(); close().
deleteClick(s) == close([s EXCEPT !.called = Append(@, "delete")])

----------------------------------------------------------------------------
\* useSwipe.

minSwipeDistance == 50

Directions == {"up", "down", "left", "right"}

\* The callbacks a detector is given: all four, or the two the dashboard's
\* card stack gives.
HandlerSets == {Directions, {"up", "down"}}

SwCoordinates == {0, 1, 5, 50, 130}

\* The detector: its props, its two position refs, whether the pointer is
\* down, and the callbacks the last pointer-up has called.
SwInit ==
    [mounted |-> FALSE, provided |-> {}, touchStart |-> NoPos,
     touchEnd |-> NoPos, pressed |-> FALSE, fired |-> << >>]

\* The callback fn() if the detector was given it.
Call(provided, fn) == IF fn \in provided THEN << fn >> ELSE << >>

\* Variant: a classification whose ties are horizontal.
SwipeCallsTiesHorizontal(provided, start, end) ==
    LET distanceX == start[1] - end[1]
        distanceY == start[2] - end[2]
    IN IF Abs(distanceX) >= Abs(distanceY)
       THEN IF Abs(distanceX) < minSwipeDistance THEN << >>
            ELSE (IF distanceX > 0 THEN Call(provided, "left") ELSE << >>)
                 \o (IF distanceX < 0 THEN Call(provided, "right") ELSE << >>)
       ELSE IF Abs(distanceY) < minSwipeDistance THEN << >>
            ELSE (IF distanceY > 0 THEN Call(provided, "up") ELSE << >>)
                 \o (IF distanceY < 0 THEN Call(provided, "down") ELSE << >>)

\* Variant: a classification with no minimum distance.
SwipeCallsAnyDistance(provided, start, end) ==
    LET distanceX == start[1] - end[1]
        distanceY == start[2] - end[2]
    IN IF Abs(distanceX) > Abs(distanceY)
       THEN (IF distanceX > 0 THEN Call(provided, "left") ELSE << >>)
            \o (IF distanceX < 0 THEN Call(provided, "right") ELSE << >>)
       ELSE (IF distanceY > 0 THEN Call(provided, "up") ELSE << >>)
            \o (IF distanceY < 0 THEN Call(provided, "down") ELSE << >>)

\* The callbacks onPointerUp calls for a drag from start to end.
SwipeCalls(provided, start, end) ==
    LET distanceX == start[1] - end[1]
        distanceY == start[2] - end[2]
        isHorizontal == Abs(distanceX) > Abs(distanceY)
    IN IF isHorizontal
       THEN IF Abs(distanceX) < minSwipeDistance THEN << >>
            ELSE (IF distanceX > 0 THEN Call(provided, "left") ELSE << >>)
                 \o (IF distanceX < 0 THEN Call(provided, "right") ELSE << >>)
       ELSE IF Abs(distanceY) < minSwipeDistance THEN << >>
            ELSE (IF distanceY > 0 THEN Call(provided, "up") ELSE << >>)
                 \o (IF distanceY < 0 THEN Call(provided, "down") ELSE << >>)

swPointerDown(d, p) ==
    [d EXCEPT !.touchEnd = NoPos, !.touchStart = p, !.pressed = TRUE,
              !.fired = << >>]

swPointerMove(d, p) == [d EXCEPT !.touchEnd = p, !.fired = << >>]

swPointerUp(d) ==
    [d EXCEPT !.pressed = FALSE,
              !.fired = IF d.touchStart = NoPos \/ d.touchEnd = NoPos THEN << >>
                        ELSE SwipeCalls(d.provided, d.touchStart, d.touchEnd)]

----------------------------------------------------------------------------
Init ==
    /\ workouts = << >>
    /\ \E c \in BOOLEAN : remote = {SeedWorkout(c)}
    /\ fetched = [pending |-> FALSE, rows |-> << >>]
    /\ mounted = FALSE
    /\ id = NullRef
    /\ workout = NewWorkout(NullRef)
    /\ showReport = FALSE
    /\ loadedIdRef = NullRef
    /\ isHydratingRef = FALSE
    /\ isDirtyRef = FALSE
    /\ editSeqRef = 0
    /\ autosaveTimerRef = 0
    /\ timers = {}
    /\ now = MsPerSecond
    /\ disposed = FALSE
    /\ routeChanges = 0
    /\ ops = << >>
    /\ lp = LpInit
    /\ ranSeconds = 0
    /\ sw = SwInit
    /\ remoteUp = TRUE
    /\ si = SiInit
    /\ inflight = NoneInFlight

----------------------------------------------------------------------------
\* The editor's handlers, as functions of the state record.

Stored(s) == \E k \in 1..Len(s.ops) : s.ops[k].op \in {"add", "update", "delete"}


\* onChange of the title input.
setTitle(s, v) == [markDirty(s) EXCEPT !.workout.title = v]

\* onChange of the note input.
setNote(s, v) == [markDirty(s) EXCEPT !.workout.note = v]

\* onClick of an exercise's remove button.
removeExercise(s, i) ==
    [markDirty(s) EXCEPT !.workout.exercises =
        [k \in 1..(Len(@) - 1) |-> IF k < i THEN @[k] ELSE @[k + 1]]]

\* Variant: a timer toggle that leaves the save to the debounce.
toggleTimerDebounced(s, t) ==
    LET w == s.workout
        updated == IF w.startTimestamp # 0
                   THEN [w EXCEPT !.startTimestamp = 0,
                                  !.elapsedSeconds = @ + ((t - w.startTimestamp) \div MsPerSecond)]
                   ELSE [w EXCEPT !.startTimestamp = t]
    IN [markDirty(s) EXCEPT !.workout = updated]

toggleTimer(s, t) ==
    LET w == s.workout
        updated == IF w.startTimestamp # 0
                   THEN [w EXCEPT !.startTimestamp = 0,
                                  !.elapsedSeconds = @ + ((t - w.startTimestamp) \div MsPerSecond)]
                   ELSE [w EXCEPT !.startTimestamp = t]
        s1 == [markDirty(s) EXCEPT !.workout = updated]
    IN IF Len(updated.exercises) > 0
       THEN saveWorkoutToContext(s1, updated, Exists(s.workouts, updated.id))
       ELSE s1

\* Variant: a finish of an empty draft that leaves the stored record.
finishEmptyKeeping(s) == s

\* handleFinish with no exercise: delete the stored record and leave.
finishEmpty(s) ==
    IF Exists(s.workouts, s.workout.id) THEN deleteWorkout(s, s.workout.id) ELSE s

\* Variant: a finish that leaves the timer running.
finishWorkoutKeepingStart(s, t) ==
    LET updated == [s.workout EXCEPT !.completed = TRUE]
    IN [saveWorkoutToContext([s EXCEPT !.workout = updated], updated,
                             Exists(s.workouts, updated.id))
            EXCEPT !.showReport = TRUE]

\* Variant: a finish that does not fold the running session.
finishWorkoutUnfolded(s, t) ==
    LET updated == [s.workout EXCEPT !.completed = TRUE, !.startTimestamp = 0]
    IN [saveWorkoutToContext([s EXCEPT !.workout = updated], updated,
                             Exists(s.workouts, updated.id))
            EXCEPT !.showReport = TRUE]

\* handleFinish with exercises.
finishWorkout(s, t) ==
    LET w == s.workout
        finalElapsed == IF w.startTimestamp # 0
                        THEN w.elapsedSeconds + ((t - w.startTimestamp) \div MsPerSecond)
                        ELSE w.elapsedSeconds
        updated == [w EXCEPT !.completed = TRUE, !.startTimestamp = 0,
                             !.elapsedSeconds = finalElapsed]
    IN [saveWorkoutToContext([s EXCEPT !.workout = updated], updated,
                             Exists(s.workouts, updated.id))
            EXCEPT !.showReport = TRUE]

\* Variant: a resume that starts the session over.
handleResumeFromZero(s) ==
    LET updated == [s.workout EXCEPT !.completed = FALSE, !.elapsedSeconds = 0]
    IN saveWorkoutToContext([s EXCEPT !.workout = updated], updated,
                            Exists(s.workouts, updated.id))

handleResume(s) ==
    LET updated == [s.workout EXCEPT !.completed = FALSE]
    IN saveWorkoutToContext([s EXCEPT !.workout = updated], updated,
                            Exists(s.workouts, updated.id))

handleSaveBack(s) ==
    IF Len(s.workout.exercises) = 0
    THEN IF Exists(s.workouts, s.workout.id)
         THEN deleteWorkout(s, s.workout.id) ELSE s
    ELSE saveWorkoutToContext(s, s.workout, Exists(s.workouts, s.workout.id))

addExercise(s) ==
    LET base == IF s.workout.completed
                THEN [s.workout EXCEPT !.completed = FALSE] ELSE s.workout
        updated == [base EXCEPT !.exercises = Append(@, NewInstance)]
    IN saveWorkoutToContext([markDirty(s) EXCEPT !.workout = updated], updated,
                            Exists(s.workouts, updated.id))

updateSet(s, i, j, field, value) ==
    [markDirty(s) EXCEPT !.workout.exercises[i].sets[j][field] = value]

addSet(s, i) ==
    LET sets == s.workout.exercises[i].sets
        lst == sets[Len(sets)]
    IN [markDirty(s) EXCEPT !.workout.exercises[i].sets =
           Append(@, [weight |-> lst.weight, reps |-> lst.reps,
                      completed |-> FALSE])]

\* Variant: a deleteSet that may leave an exercise without sets.
deleteSetPlain(s, i, j) ==
    LET sets == s.workout.exercises[i].sets
    IN [markDirty(s) EXCEPT !.workout.exercises[i].sets =
           [k \in 1..(Len(sets) - 1) |-> IF k < j THEN sets[k] ELSE sets[k + 1]]]

deleteSet(s, i, j) ==
    LET sets == s.workout.exercises[i].sets
        next == [k \in 1..(Len(sets) - 1) |-> IF k < j THEN sets[k] ELSE sets[k + 1]]
    IN [markDirty(s) EXCEPT !.workout.exercises[i].sets =
           IF Len(next) > 0 THEN next ELSE << DefaultSet >>]

\* The callback of the debounce timer t.
autosaveFire(s, t) ==
    LET s1 == saveWorkoutToContext([s EXCEPT !.timers = @ \ {t}], t.w, t.exists)
    IN IF s.mounted /\ t.seq = s1.editSeqRef
       THEN [s1 EXCEPT !.isDirtyRef = FALSE] ELSE s1

\* First render of a new instance on route r.
mountEditor(s, r) ==
    [s EXCEPT !.mounted = TRUE, !.id = r,
              !.workout = NewWorkout(generateId(s))]

----------------------------------------------------------------------------
\* Actions.

Editing == mounted /\ ~showReport

CanEdit == Editing /\ editSeqRef < MaxEdits

Routes == {NewRoute, ExistingId} \cup IdsOf(workouts)

Open(r) ==
    /\ ~mounted
    /\ ~disposed
    /\ HasFreshId(Cur)
    /\ r = NewRoute => HasFreshId(mountEditor(Cur, r))
    /\ Commit(Render(mountEditor(Cur, r), TRUE, TRUE), "Open")
    /\ lp' = lpUnmount(lp)
    /\ UNCHANGED << fetched, now, ranSeconds, sw, remoteUp, si,
                    inflight >>

ChangeRoute(r) ==
    /\ mounted
    /\ r # id
    /\ r = NewRoute => HasFreshId(Cur)
    /\ routeChanges < MaxRouteChanges
    /\ Commit(Render([Cur EXCEPT !.id = r, !.routeChanges = @ + 1], FALSE, TRUE),
              "ChangeRoute")
    /\ UNCHANGED << fetched, now, lp, ranSeconds, sw, remoteUp, si,
                    inflight >>

Unmount ==
    /\ mounted
    /\ Commit(Dispose(Cur), "Unmount")
    /\ UNCHANGED << fetched, now, lp, ranSeconds, sw, remoteUp, si,
                    inflight >>

EditTitle(v) ==
    /\ CanEdit
    /\ v # workout.title
    /\ Commit(Render(setTitle(Cur, v), TRUE, FALSE), "EditTitle")
    /\ UNCHANGED << fetched, now, lp, ranSeconds, sw, remoteUp, si,
                    inflight >>

EditNote(v) ==
    /\ CanEdit
    /\ v # workout.note
    /\ Commit(Render(setNote(Cur, v), TRUE, FALSE), "EditNote")
    /\ UNCHANGED << fetched, now, lp, ranSeconds, sw, remoteUp, si,
                    inflight >>

RemoveExercise(i) ==
    /\ CanEdit
    /\ i \in 1..Len(workout.exercises)
    /\ Commit(Render(removeExercise(Cur, i), TRUE, FALSE), "RemoveExercise")
    /\ UNCHANGED << fetched, now, lp, ranSeconds, sw, remoteUp, si,
                    inflight >>

AddExercise ==
    /\ CanEdit
    /\ Len(workout.exercises) < MaxExercises
    /\ Commit(Render(addExercise(Cur), TRUE, TRUE), "AddExercise")
    /\ UNCHANGED << fetched, now, lp, ranSeconds, sw, remoteUp, si,
                    inflight >>

UpdateSet(i, j, field, value) ==
    /\ CanEdit
    /\ i \in 1..Len(workout.exercises)
    /\ j \in 1..Len(workout.exercises[i].sets)
    /\ workout.exercises[i].sets[j][field] # value
    /\ Commit(Render(updateSet(Cur, i, j, field, value), TRUE, FALSE), "UpdateSet")
    /\ UNCHANGED << fetched, now, lp, ranSeconds, sw, remoteUp, si,
                    inflight >>

AddSet(i) ==
    /\ CanEdit
    /\ i \in 1..Len(workout.exercises)
    /\ Len(workout.exercises[i].sets) < MaxSets
    /\ Commit(Render(addSet(Cur, i), TRUE, FALSE), "AddSet")
    /\ UNCHANGED << fetched, now, lp, ranSeconds, sw, remoteUp, si,
                    inflight >>

DeleteSet(i, j) ==
    /\ CanEdit
    /\ i \in 1..Len(workout.exercises)
    /\ j \in 1..Len(workout.exercises[i].sets)
    /\ Commit(Render(deleteSet(Cur, i, j), TRUE, FALSE), "DeleteSet")
    /\ UNCHANGED << fetched, now, lp, ranSeconds, sw, remoteUp, si,
                    inflight >>

ToggleTimer ==
    /\ CanEdit
    /\ ~workout.completed
    /\ LET s == toggleTimer(Cur, now)
       IN Commit(Render(s, TRUE, Stored(s)), "ToggleTimer")
    /\ UNCHANGED << fetched, now, lp, ranSeconds, sw, remoteUp, si,
                    inflight >>

FinishEmpty ==
    /\ Editing
    /\ Len(workout.exercises) = 0
    /\ Commit(Dispose(finishEmpty(Cur)), "FinishEmpty")
    /\ UNCHANGED << fetched, now, lp, ranSeconds, sw, remoteUp, si,
                    inflight >>

Finish ==
    /\ Editing
    /\ Len(workout.exercises) > 0
    /\ Commit(Render(finishWorkout(Cur, now), TRUE, TRUE), "Finish")
    /\ UNCHANGED << fetched, now, lp, ranSeconds, sw, remoteUp, si,
                    inflight >>

ExitReport ==
    /\ mounted
    /\ showReport
    /\ Commit(Dispose(Cur), "ExitReport")
    /\ UNCHANGED << fetched, now, lp, ranSeconds, sw, remoteUp, si,
                    inflight >>

Resume ==
    /\ Editing
    /\ workout.completed
    /\ Commit(Render(handleResume(Cur), TRUE, TRUE), "Resume")
    /\ UNCHANGED << fetched, now, lp, ranSeconds, sw, remoteUp, si,
                    inflight >>

SaveBack ==
    /\ Editing
    /\ Commit(Dispose(handleSaveBack(Cur)), "SaveBack")
    /\ UNCHANGED << fetched, now, lp, ranSeconds, sw, remoteUp, si,
                    inflight >>

DebounceFire(t) ==
    /\ t \in timers
    /\ Commit(Render(autosaveFire(Cur, t), FALSE, TRUE), "DebounceFire")
    /\ UNCHANGED << fetched, now, lp, ranSeconds, sw, remoteUp, si,
                    inflight >>

\* The setTimeout(.., 0) of a hydration.  The timeout of the hydration that
\* raised the flag is pending while the flag is up, and the callback of any
\* other one finds the flag as it leaves it.
ClearHydrating ==
    /\ mounted
    /\ isHydratingRef
    /\ Commit([Cur EXCEPT !.isHydratingRef = FALSE], "ClearHydrating")
    /\ UNCHANGED << fetched, now, lp, ranSeconds, sw, remoteUp, si,
                    inflight >>

\* A select that fails sets nothing (wData is null), so only the ones
\* that succeed are steps.
FetchIssue ==
    /\ ~fetched.pending
    /\ remoteUp
    /\ fetched' = [pending |-> TRUE, rows |-> RowsInOrder(remote, 1)]
    /\ Commit(Cur, "FetchIssue")
    /\ UNCHANGED << now, lp, ranSeconds, sw, remoteUp, si,
                    inflight >>

FetchDone ==
    /\ fetched.pending
    /\ fetched' = [pending |-> FALSE, rows |-> << >>]
    /\ Commit(Render(setWorkouts(Cur, fetched.rows), FALSE, TRUE), "FetchDone")
    /\ UNCHANGED << now, lp, ranSeconds, sw, remoteUp, si,
                    inflight >>

LpStep(l) ==
    /\ lp' = l
    /\ UNCHANGED << workouts, remote, fetched, mounted, id, workout,
                    showReport, loadedIdRef, isHydratingRef, isDirtyRef,
                    editSeqRef, autosaveTimerRef, timers, now, disposed,
                    routeChanges, ops, ranSeconds, sw, remoteUp, si,
                    inflight >>

LpDown(p) == lp.mounted /\ LpStep(onPointerDown(lp, p))

LpMove(p) ==
    /\ lp.mounted
    /\ lp.startPos # NoPos
    /\ ~lp.cancelled
    /\ LpStep([onPointerMove(lp, p) EXCEPT
                 !.moved = @ \/ (Displaced(p, lp.startPos)
                                 /\ lp.longPresses = 0)])

LpUp ==
    /\ lp.mounted
    /\ lp.startPos # NoPos
    /\ ~lp.cancelled
    /\ LpStep(onPointerUp(lp))

\* The browser cancels the pointer (a scroll takes the touch over, the
\* window loses focus): no move and no pointer-up of that pointer follows.
LpCancel ==
    /\ lp.mounted
    /\ lp.startPos # NoPos
    /\ ~lp.cancelled
    /\ LpStep([onPointerCancel(lp) EXCEPT !.cancelled = TRUE])

LpLeave ==
    /\ lp.mounted
    /\ lp.startPos # NoPos
    /\ LpStep([cancel(lp) EXCEPT !.left = TRUE])

LpTimerFire(h) == h \in lp.timers /\ LpStep(lpTimerFire(lp, h))

\* The render React owes after the timer's setStartLongPress(false).
LpRender == lp.mounted /\ lp.seen # lp.startLongPress /\ LpStep(lpRender(lp))

LpUnmount == lp.mounted /\ LpStep(lpUnmount(lp))

LongPressNext ==
    \/ \E p \in Coordinates \X Coordinates : LpDown(p)
    \/ \E p \in Coordinates \X Coordinates : LpMove(p)
    \/ LpUp
    \/ LpCancel
    \/ LpLeave
    \/ \E h \in lp.timers : LpTimerFire(h)
    \/ LpRender
    \/ LpUnmount

\* A pointer or click event of the list item, or one of its frames.
SiStep(s) ==
    /\ si' = s
    /\ UNCHANGED << workouts, remote, fetched, mounted, id, workout,
                    showReport, loadedIdRef, isHydratingRef, isDirtyRef,
                    editSeqRef, autosaveTimerRef, timers, now, disposed,
                    routeChanges, ops, lp, ranSeconds, sw, remoteUp,
                    inflight >>

\* The pointer goes down on the row, moves, and goes up or is cancelled.
SiDown(p) ==
    /\ ~si.pressed
    /\ SiStep([handlePointerDown(Quiet(si), p, now) EXCEPT !.pressed = TRUE])

SiMove(p) == si.pressed /\ SiStep(handlePointerMove(Quiet(si), p))

SiUp ==
    /\ si.pressed
    /\ SiStep([handlePointerUp(Quiet(si), now) EXCEPT !.pressed = FALSE])

\* onPointerCancel is handlePointerUp.
SiCancel ==
    /\ si.pressed
    /\ SiStep([handlePointerUp(Quiet(si), now) EXCEPT !.pressed = FALSE])

\* The click that follows a pointer-up on the row.
SiClick == ~si.pressed /\ SiStep(onClickCapture(Quiet(si)))

SiCopy == SiStep(copyClick(Quiet(si)))

SiDelete == SiStep(deleteClick(Quiet(si)))

SiFrame == si.raf /\ SiStep(animationFrame(Quiet(si)))

\* Time passes.
Elapse ==
    /\ now < MsPerSecond + MaxDragTicks * DragTick
    /\ now' = now + DragTick
    /\ UNCHANGED << workouts, remote, fetched, mounted, id, workout,
                    showReport, loadedIdRef, isHydratingRef, isDirtyRef,
                    editSeqRef, autosaveTimerRef, timers, disposed,
                    routeChanges, ops, lp, ranSeconds, sw, remoteUp, si,
                    inflight >>

RevealNext ==
    \/ \E p \in RevealXs \X RevealYs : SiDown(p)
    \/ \E p \in RevealXs \X RevealYs : SiMove(p)
    \/ SiUp
    \/ SiCancel
    \/ SiClick
    \/ SiCopy
    \/ SiDelete
    \/ SiFrame
    \/ Elapse

\* The history list: a WorkoutRow, with its long-press detector, inside a
\* SwipeableItem.  A pointer event on the row runs the row's handler, then
\* the item's; once the item has captured the pointer (horizontal lock) the
\* row gets no more events.  Whole pixels, so that both read the same
\* clientX and clientY.
RowXs == {0, 20}

RowYs == {0, 20}

Milli(p) == << p[1] * Px, p[2] * Px >>

Captured == si.lockedAxis = "x"

RowStep(l, s) ==
    /\ lp' = l
    /\ si' = s
    /\ UNCHANGED << workouts, remote, fetched, mounted, id, workout,
                    showReport, loadedIdRef, isHydratingRef, isDirtyRef,
                    editSeqRef, autosaveTimerRef, timers, now, disposed,
                    routeChanges, ops, ranSeconds, sw, remoteUp,
                    inflight >>

RowDown(p) ==
    /\ lp.mounted
    /\ ~si.pressed
    /\ RowStep(onPointerDown(lp, p),
               [handlePointerDown(Quiet(si), Milli(p), now)
                   EXCEPT !.pressed = TRUE])

RowMove(p) ==
    /\ lp.mounted
    /\ si.pressed
    /\ RowStep(IF Captured THEN lp
               ELSE [onPointerMove(lp, p) EXCEPT
                       !.moved = @ \/ (/\ lp.startPos # NoPos
                                       /\ Displaced(p, lp.startPos)
                                       /\ lp.longPresses = 0)],
               handlePointerMove(Quiet(si), Milli(p)))

RowUp ==
    /\ lp.mounted
    /\ si.pressed
    /\ RowStep(IF Captured THEN lp ELSE onPointerUp(lp),
               [handlePointerUp(Quiet(si), now) EXCEPT !.pressed = FALSE])

\* pointercancel: the row has no handler for it.
RowCancel ==
    /\ lp.mounted
    /\ si.pressed
    /\ RowStep([onPointerCancel(lp) EXCEPT !.cancelled = TRUE],
               [handlePointerUp(Quiet(si), now) EXCEPT !.pressed = FALSE])

\* The pointer leaves the row.
RowLeave ==
    /\ lp.mounted
    /\ si.pressed
    /\ RowStep([cancel(lp) EXCEPT !.left = TRUE], Quiet(si))

\* The click that follows a pointer-up: the item's capture handler; the row
\* has no click handler.
RowClick ==
    /\ lp.mounted
    /\ ~si.pressed
    /\ RowStep(lp, onClickCapture(Quiet(si)))

RowNext ==
    \/ \E p \in RowXs \X RowYs : RowDown(p)
    \/ \E p \in RowXs \X RowYs : RowMove(p)
    \/ RowUp
    \/ RowCancel
    \/ RowLeave
    \/ RowClick
    \/ \E h \in lp.timers : LpTimerFire(h)
    \/ LpRender
    \/ SiFrame
    \/ SiCopy
    \/ SiDelete

SwStep(d) ==
    /\ sw' = d
    /\ UNCHANGED << workouts, remote, fetched, mounted, id, workout,
                    showReport, loadedIdRef, isHydratingRef, isDirtyRef,
                    editSeqRef, autosaveTimerRef, timers, now, disposed,
                    routeChanges, ops, lp, ranSeconds, remoteUp, si,
                    inflight >>

\* A component that uses the detector mounts, with its callbacks.
SwMount(h) ==
    /\ ~sw.mounted
    /\ SwStep([SwInit EXCEPT !.mounted = TRUE, !.provided = h])

\* The pointer goes down, moves, and goes up.
SwDown(p) == sw.mounted /\ ~sw.pressed /\ SwStep(swPointerDown(sw, p))

SwMove(p) == sw.mounted /\ SwStep(swPointerMove(sw, p))

SwUp == sw.mounted /\ sw.pressed /\ SwStep(swPointerUp(sw))

SwipeNext ==
    \/ \E h \in HandlerSets : SwMount(h)
    \/ \E p \in SwCoordinates \X SwCoordinates : SwDown(p)
    \/ \E p \in SwCoordinates \X SwCoordinates : SwMove(p)
    \/ SwUp

SetFields == {"weight", "reps", "completed"}

SetValues(field) == IF field = "completed" THEN BOOLEAN ELSE Numbers

\* Steps of the editor, of the collection and of the detector that every
\* specification takes.
CoreNext ==
    \/ \E r \in Routes : Open(r)
    \/ Unmount
    \/ \E v \in Texts : EditTitle(v)
    \/ \E i \in 1..MaxExercises : RemoveExercise(i)
    \/ AddExercise
    \/ ToggleTimer
    \/ FinishEmpty
    \/ Finish
    \/ ExitReport
    \/ Resume
    \/ SaveBack
    \/ \E t \in timers : DebounceFire(t)
    \/ ClearHydrating
    \/ FetchIssue
    \/ FetchDone
    \/ LongPressNext

\* The other field edits.
FieldNext ==
    \/ \E v \in Texts : EditNote(v)
    \/ \E i \in 1..MaxExercises, j \in 1..MaxSets, f \in SetFields :
          \E v \in SetValues(f) : UpdateSet(i, j, f, v)
    \/ \E i \in 1..MaxExercises : AddSet(i)
    \/ \E i \in 1..MaxExercises, j \in 1..MaxSets : DeleteSet(i, j)

\* One editor instance on one route, with every edit handler.
Next == CoreNext \/ FieldNext

Spec == Init /\ [][Next]_vars

\* One editor instance whose route changes; the title's edits stand for the
\* field edits, which all act on the refs and on the timer as it does.
NextRoute == CoreNext \/ \E r \in Routes : ChangeRoute(r)

SpecRoute == Init /\ [][NextRoute]_vars

\* A stored workout that has run for SeedElapsed seconds and, if running, was
\* started at the initial instant.
SeedClock(c, running) ==
    [SeedWorkout(c) EXCEPT !.elapsedSeconds = SeedElapsed,
                           !.startTimestamp = IF running THEN MsPerSecond ELSE 0]

\* The collection has been fetched before the editor opens.
InitClock ==
    /\ \E c \in BOOLEAN, running \in BOOLEAN :
          /\ c => ~running
          /\ remote = {SeedClock(c, running)}
          /\ workouts = << SeedClock(c, running) >>
    /\ fetched = [pending |-> FALSE, rows |-> << >>]
    /\ mounted = FALSE
    /\ id = NullRef
    /\ workout = NewWorkout(NullRef)
    /\ showReport = FALSE
    /\ loadedIdRef = NullRef
    /\ isHydratingRef = FALSE
    /\ isDirtyRef = FALSE
    /\ editSeqRef = 0
    /\ autosaveTimerRef = 0
    /\ timers = {}
    /\ now = MsPerSecond
    /\ disposed = FALSE
    /\ routeChanges = 0
    /\ ops = << >>
    /\ lp = lpUnmount(LpInit)
    /\ ranSeconds = 0
    /\ sw = SwInit
    /\ remoteUp = TRUE
    /\ si = SiInit
    /\ inflight = NoneInFlight

\* A second passes while the editor is open.
Tick ==
    /\ mounted
    /\ now \div MsPerSecond < MaxClock
    /\ now' = now + MsPerSecond
    /\ ranSeconds' = IF workout.startTimestamp # 0 THEN ranSeconds + 1 ELSE ranSeconds
    /\ Commit(Cur, "Tick")
    /\ UNCHANGED << fetched, lp, sw, remoteUp, si,
                    inflight >>

\* One editor instance under a clock that advances.
NextClock ==
    \/ \E r \in Routes : Open(r)
    \/ Tick
    \/ ToggleTimer
    \/ Finish
    \/ FinishEmpty
    \/ Resume
    \/ AddExercise
    \/ \E i \in 1..MaxExercises : RemoveExercise(i)
    \/ \E v \in Texts : EditTitle(v)
    \/ \E t \in timers : DebounceFire(t)
    \/ ClearHydrating
    \/ ExitReport
    \/ SaveBack
    \/ Unmount

SpecClock == InitClock /\ [][NextClock]_vars

\* A list view: the rows' detector, while the collection is fetched.
NextLongPress == LongPressNext \/ FetchIssue \/ FetchDone

SpecLongPress == Init /\ [][NextLongPress]_vars

\* A swipe detector.
SpecSwipe == Init /\ [][SwipeNext]_vars

\* A list item that reveals its actions.
SpecReveal == Init /\ [][RevealNext]_vars

\* A row of the history list.
SpecRow == Init /\ [][RowNext]_vars

\* The remote table becomes unreachable, or reachable again.
NetworkChange ==
    /\ remoteUp' = ~remoteUp
    /\ Commit(Cur, "NetworkChange")
    /\ UNCHANGED << fetched, now, lp, ranSeconds, sw, si, inflight >>

\* One editor instance over a remote table whose writes may fail.
NextRemote ==
    \/ \E r \in Routes : Open(r)
    \/ NetworkChange
    \/ AddExercise
    \/ \E i \in 1..MaxExercises : RemoveExercise(i)
    \/ \E v \in Texts : EditTitle(v)
    \/ ToggleTimer
    \/ Finish
    \/ FinishEmpty
    \/ Resume
    \/ SaveBack
    \/ ExitReport
    \/ Unmount
    \/ \E t \in timers : DebounceFire(t)
    \/ ClearHydrating
    \/ FetchIssue
    \/ FetchDone

SpecRemote == Init /\ [][NextRemote]_vars

-----------------------------------------------------------------------------
\* Properties of the editor's hydration and autosave.

\* A step in which the hydration effect replaces the working copy with the
\* store's record of the route identity.
HydratesFromStore ==
    /\ mounted'
    /\ loadedIdRef' # loadedIdRef
    /\ loadedIdRef' \notin {NullRef, NewRoute}

\* A step in which a fetch completes and replaces the store's collection.
RefreshStep == fetched.pending /\ ~fetched'.pending

\* A step in which a pending debounce timer fires.
FlushStep == \E t \in timers : DebounceFire(t)

\* The dirty flag as the hydration effect of a step reads it: a flush clears it
\* before the render that follows the flush runs the effect.
CleanAtHydration == ~isDirtyRef \/ FlushStep

\* The store writes (inserts and replacements) issued by the last step.
Upserts == {k \in 1..Len(ops) : ops[k].op \in {"add", "update"}}

\* C1: in an editor instance opened on an existing identity, once a local edit
\* has occurred in the instance (the edit counter is above zero), no later
\* hydration step replaces the working copy with a store snapshot.
C1_EditsSurviveHydration ==
    [][(mounted /\ id # NewRoute /\ editSeqRef > 0) => ~HydratesFromStore]_vars

\* C2, as stated: hydration of an existing identity overwrites the working copy
\* only in a state where no record has yet been loaded in the instance and the
\* dirty flag is false.
C2_HydratesOnlyBeforeFirstLoad ==
    [][HydratesFromStore =>
          (loadedIdRef \in {NullRef, NewRoute} /\ CleanAtHydration)]_vars

\* C2, amended: hydration of an existing identity overwrites the working copy
\* only in a state where the identity loaded in the instance differs from the
\* route identity and the dirty flag is false; and a refresh that arrives while
\* a draft is loaded and dirty leaves every field of the working copy as it was.
C2_HydratesOnlyOtherIdentityClean ==
    [][/\ HydratesFromStore => (loadedIdRef # id' /\ CleanAtHydration)
       /\ (mounted /\ loadedIdRef # NullRef /\ isDirtyRef /\ RefreshStep)
             => (workout' = workout /\ isDirtyRef')]_vars

\* C2 witness: a record was hydrated after a route change, then edited, and a
\* refresh carrying a different payload for it has arrived while it is dirty.
C2_Witness ==
    /\ mounted /\ isDirtyRef /\ routeChanges > 0
    /\ loadedIdRef = id /\ id # NewRoute
    /\ Len(ops) = 1 /\ ops[1].op = "set" /\ ops[1].by = "FetchDone"
    /\ Exists(workouts, id) /\ Find(workouts, id) # workout

\* A step that edits a field (title, note, a set) of a loaded draft that has
\* at least one exercise: the edit counter advances and nothing is stored.
FieldEditStep ==
    /\ mounted /\ mounted'
    /\ loadedIdRef # NullRef
    /\ Len(workout.exercises) >= 1
    /\ Len(workout'.exercises) = Len(workout.exercises)
    /\ \/ \E v \in Texts : EditTitle(v) \/ EditNote(v)
       \/ \E i \in 1..MaxExercises, j \in 1..MaxSets, f \in SetFields :
             \E v \in SetValues(f) : UpdateSet(i, j, f, v)
       \/ \E i \in 1..MaxExercises : AddSet(i)
       \/ \E i \in 1..MaxExercises, j \in 1..MaxSets : DeleteSet(i, j)

\* The bookkeeping the debounce promises after a field edit: the draft is
\* dirty, and exactly one timer is pending, carrying the edited copy.
OneFlushPending ==
    /\ isDirtyRef'
    /\ Cardinality(timers') = 1
    /\ \A t \in timers' : t.w = workout' /\ t.seq = editSeqRef'

\* The flush of a burst: one upsert of the working copy, dirty flag cleared.
OneUpsertOfWorkingCopy ==
    /\ Len(ops') = 1
    /\ ops'[1].op \in {"add", "update"}
    /\ ops'[1].w = workout
    /\ ~isDirtyRef'

\* C3: every field edit of a burst on a loaded draft with at least one
\* exercise stores nothing itself and leaves the draft dirty with exactly one
\* flush pending for the latest state; that flush issues exactly one upsert,
\* carrying the burst's final state, and clears the dirty flag.
C3_BurstCoalesces ==
    [][/\ FieldEditStep => (Upserts' = {} /\ OneFlushPending)
       /\ (FlushStep /\ mounted) => OneUpsertOfWorkingCopy]_vars

\* The same statement for edits made after the hydrating flag has been cleared.
BurstCoalescesOnceSettled ==
    [][(FieldEditStep /\ ~isHydratingRef)
          => (Upserts' = {} /\ OneFlushPending)]_vars

\* C4: when the debounce timer fires, the copy written is the working copy of
\* that moment; it is inserted if the store holds no record under its identity
\* and replaces the record otherwise; and the dirty flag is cleared exactly when
\* the edit counter still equals the value captured at scheduling.
C4_FlushWritesCurrentCopy ==
    [][\A t \in timers : (DebounceFire(t) /\ mounted) =>
          /\ Len(ops') = 1
          /\ ops'[1].w = workout
          /\ ops'[1].op = (IF Exists(workouts, workout.id) THEN "update" ELSE "add")
          /\ Cardinality({k \in 1..Len(workouts') : workouts'[k].id = workout.id}) = 1
          /\ \E k \in 1..Len(workouts') : workouts'[k] = workout
          /\ isDirtyRef' = (IF t.seq = editSeqRef THEN FALSE ELSE isDirtyRef)]_vars

\* C7: every write that inserts or replaces a record carries a draft with at
\* least one exercise; an empty draft is never persisted.
C7_NoEmptyDraftStored ==
    \A k \in Upserts : Len(ops[k].w.exercises) >= 1

\* The calls o hold an insert or replacement of the copy w.
Upserted(o, w) ==
    \E k \in 1..Len(o) : o[k].op \in {"add", "update"} /\ o[k].w = w

\* C5: a timer toggle, a finish and a save-and-back on a draft with at least
\* one exercise write the resulting working copy to the store in the same step;
\* every timer pending afterwards carries that copy, and a timer pending in any
\* state carries the working copy of that state, so no pending timer ever
\* writes a copy older than the explicitly saved one.
C5_ExplicitSaveSupersedes ==
    [][/\ ((ToggleTimer /\ Len(workout.exercises) >= 1) \/ Finish)
            => /\ Upserted(ops', workout')
               /\ \E k \in 1..Len(workouts') : workouts'[k] = workout'
               /\ \A t \in timers' : t.w = workout'
       /\ (SaveBack /\ Len(workout.exercises) >= 1)
            => /\ Upserted(ops', workout)
               /\ \E k \in 1..Len(workouts') : workouts'[k] = workout
               /\ timers' = {}
       /\ \A t \in timers' : t.w = workout']_vars

\* C5 witness: a finish on a dirty draft has stored the completed copy,
\* cancelled the timer that was pending and left one carrying that copy.
C5_Witness ==
    /\ mounted /\ showReport /\ timers # {}
    /\ \E k \in 1..Len(ops) : ops[k].op = "cancel" /\ ops[k].by = "Finish"
    /\ \E k \in Upserts : ops[k].by = "Finish" /\ ops[k].w = workout

\* C6: a finish or a save-and-back on a draft with no exercise stores no copy
\* of it: it deletes the record stored under the draft's identity if there is
\* one, and issues no insert or replacement.
C6_EmptyDraftRemoved ==
    [][(FinishEmpty \/ (SaveBack /\ Len(workout.exercises) = 0))
          => /\ Upserts' = {}
             /\ ~Exists(workouts', workout.id)
             /\ Exists(workouts, workout.id)
                  => /\ Len(ops') >= 1
                     /\ ops'[1] \in {[op |-> "delete", w |-> [id |-> workout.id], by |-> b] :
                                        b \in {"FinishEmpty", "SaveBack"}}]_vars

\* C6 witness: a finish of an emptied draft has deleted its stored record.
C6_Witness ==
    /\ ~mounted
    /\ Len(ops) >= 1 /\ ops[1].op = "delete" /\ ops[1].by = "FinishEmpty"
    /\ ~Exists(workouts, ops[1].w.id)

\* A step that initialises the fresh draft of the 'new' route.
InitialisesNew == mounted' /\ loadedIdRef' = NewRoute /\ loadedIdRef # NewRoute

\* A step through which the 'new' draft stays loaded in the instance.
StaysNew == mounted /\ mounted' /\ loadedIdRef = NewRoute /\ loadedIdRef' = NewRoute

\* C8: the 'new' route initialises a fresh draft, with a generated identity
\* and default fields, once; while 'new' stays loaded, no step changes the
\* draft's identity, and refreshes of the store and re-renders neither
\* re-initialise the draft nor discard its local edits.
C8_NewInitialisedOnce ==
    [][/\ InitialisesNew
            => /\ workout' = NewWorkout(workout'.id)
               /\ workout'.id \notin UsedIds(Cur) \ {workout.id}
               /\ ~isDirtyRef'
       /\ StaysNew => workout'.id = workout.id
       /\ (StaysNew /\ (RefreshStep \/ FetchIssue \/ ClearHydrating
                          \/ FlushStep \/ \E r \in Routes : ChangeRoute(r)))
            => /\ workout' = workout
               /\ editSeqRef' = editSeqRef
               /\ (isDirtyRef' = isDirtyRef \/ FlushStep)]_vars

\* C8 witness: a refresh of the store has arrived while the 'new' draft was
\* loaded and carried local edits.
C8_Witness ==
    /\ mounted /\ id = NewRoute /\ loadedIdRef = NewRoute
    /\ isDirtyRef /\ editSeqRef > 0 /\ workout.title # 0
    /\ Len(ops) = 1 /\ ops[1].op = "set"

\* C9: in every state at most one debounce timer is pending, and it is the
\* one whose handle the editor holds.
C9_OneTimerPending ==
    /\ Cardinality(timers) <= 1
    /\ \A t \in timers : t.h = autosaveTimerRef

\* C9 witness: an edit has cancelled the pending timer and scheduled its own.
C9_Witness ==
    /\ timers # {}
    /\ \A t \in timers : t.seq = editSeqRef /\ t.seq >= 2
    /\ \E k \in 1..Len(ops) : ops[k].op = "cancel" /\ ops[k].by = "EditTitle"

\* C10: once the editor instance has unmounted, or as soon as it moves to a
\* different route identity, no debounce timer is left pending, and a flush
\* fires only in a mounted instance; once a long-press detector has unmounted,
\* no hold timer of it is left pending and onLongPress is not invoked.
C10_CancelledOnDispose ==
    [][/\ ~mounted' => timers' = {}
       /\ (\E r \in Routes : ChangeRoute(r)) => timers' = {}
       /\ FlushStep => mounted
       /\ ~lp'.mounted => (lp'.timers = {} /\ lp'.longPresses = 0)]_vars

\* The part of C10 about unmounting alone.
CancelledOnUnmount ==
    [][/\ ~mounted' => timers' = {}
       /\ FlushStep => mounted
       /\ ~lp'.mounted => (lp'.timers = {} /\ lp'.longPresses = 0)]_vars

-----------------------------------------------------------------------------
\* Properties of the workout timer.

\* elapsedSeconds of the working copy when the instance loaded it.
InitialElapsed == IF id = NewRoute THEN 0 ELSE SeedElapsed

\* What elapsedSeconds would be if the copy w were stopped at time t.
ElapsedAt(w, t) ==
    w.elapsedSeconds +
    (IF w.startTimestamp # 0 THEN (t - w.startTimestamp) \div MsPerSecond ELSE 0)

\* C11: a finish on a non-completed draft leaves elapsedSeconds equal to the
\* initial elapsedSeconds plus the total length of the running intervals,
\* with startTimestamp null and completed true, and writes that copy; and in
\* every state the stored seconds plus the open interval equal that total.
C11_TimerAccumulates ==
    [][/\ (Finish /\ ~workout.completed)
            => /\ workout'.elapsedSeconds = InitialElapsed + ranSeconds
               /\ workout'.startTimestamp = 0
               /\ workout'.completed
               /\ Upserted(ops', workout')
       /\ (mounted' /\ loadedIdRef' # NullRef)
            => ElapsedAt(workout', now') = InitialElapsed' + ranSeconds']_vars

\* C11 witness: after two toggles, two seconds of running and some paused
\* time, a finish has produced the completed copy.
C11_Witness ==
    /\ mounted /\ showReport /\ workout.completed
    /\ editSeqRef >= 2 /\ ranSeconds >= 2
    /\ (now \div MsPerSecond) - 1 > ranSeconds
    /\ workout.elapsedSeconds = InitialElapsed + ranSeconds
    /\ \E k \in Upserts : ops[k].by = "Finish"

\* A completed workout has no running timer.
Stopped(w) == w.completed => w.startTimestamp = 0

\* C12: in every state a completed working copy has startTimestamp null, and
\* so has every record the editor writes and every record of the collection.
C12_CompletedIsStopped ==
    /\ mounted => Stopped(workout)
    /\ \A k \in Upserts : Stopped(ops[k].w)
    /\ \A k \in 1..Len(workouts) : Stopped(workouts[k])
    /\ \A r \in remote : Stopped(r)

\* C12 witness: a fresh draft was given an exercise, its timer was started
\* and ran, and a finish has completed it.
C12_Witness ==
    /\ mounted /\ showReport /\ id = NewRoute
    /\ workout.completed /\ workout.startTimestamp = 0
    /\ editSeqRef = 2 /\ ranSeconds >= 1
    /\ \E k \in Upserts : ops[k].by = "Finish" /\ ops[k].w = workout

-----------------------------------------------------------------------------
\* Properties of the exercise list.

\* C13: after every step each exercise of the working copy has at least one
\* set, and deleting the only set of an exercise leaves it with exactly one
\* set of weight 0, reps 0, not completed.
C13_ExerciseKeepsASet ==
    [][/\ mounted' => \A i \in 1..Len(workout'.exercises) :
                         Len(workout'.exercises[i].sets) >= 1
       /\ \A i \in 1..MaxExercises, j \in 1..MaxSets :
             (DeleteSet(i, j) /\ Len(workout.exercises[i].sets) = 1)
                => workout'.exercises[i].sets = << DefaultSet >>]_vars

\* C13 witness: the only set of an exercise, holding a weight, was deleted
\* and a default set stands in its place.
C13_Witness ==
    /\ mounted /\ Len(workout.exercises) >= 1
    /\ workout.exercises[1].sets = << DefaultSet >>
    /\ \E k \in 1..Len(ops) :
          /\ ops[k].op = "cancel" /\ ops[k].by = "DeleteSet"
          /\ Len(ops[k].w.exercises[1].sets) = 1
          /\ ops[k].w.exercises[1].sets[1].weight = 1

-----------------------------------------------------------------------------
\* Properties of the optimistic collection.

\* The calls on the collection among the calls o.
StoreCalls(o) == {k \in 1..Len(o) : o[k].op \in {"add", "update", "delete"}}

\* What a call does to the in-memory collection and to the remote table.
InMemory(ws, c) ==
    CASE c.op = "add" -> Append(ws, c.w)
      [] c.op = "update" -> [k \in 1..Len(ws) |-> IF ws[k].id = c.w.id THEN c.w ELSE ws[k]]
      [] c.op = "delete" -> SelectSeq(ws, LAMBDA r : r.id # c.w.id)

AtRemote(rows, c) ==
    IF c.op = "delete" THEN DeleteRow(rows, c.w.id) ELSE Upsert(rows, c.w)

\* Two outcomes of a handler agree on everything but the remote table.
Blind(a, b) ==
    [a EXCEPT !.remote = {}, !.remoteUp = TRUE] = [b EXCEPT !.remote = {}, !.remoteUp = TRUE]

\* Every handler that writes leaves the collection, the working copy and the
\* refs the same whether its remote write succeeds or fails, and a write that
\* fails leaves the remote table as it was.
FailureBlind ==
    LET up == [Cur EXCEPT !.remoteUp = TRUE]
        down == [Cur EXCEPT !.remoteUp = FALSE]
        Same(h(_)) == /\ Blind(Render(h(up), TRUE, TRUE), Render(h(down), TRUE, TRUE))
                      /\ h(down).remote = remote
        Toggle(s) == toggleTimer(s, now)
        FinishW(s) == finishWorkout(s, now)
    IN /\ Same(addExercise) /\ Same(Toggle) /\ Same(FinishW) /\ Same(finishEmpty)
       /\ Same(handleResume) /\ Same(handleSaveBack)
       /\ \A t \in timers : LET Fire(s) == autosaveFire(s, t) IN Same(Fire)

\* C14: a step that calls addWorkout, updateWorkout or deleteWorkout changes
\* the in-memory collection in that step whether or not the remote write
\* succeeds; a write that fails leaves the remote table unchanged and the
\* collection, the working copy and the dirty flag exactly as a write that
\* succeeds leaves them: nothing is rolled back or retried.
C14_OptimisticNoRollback ==
    /\ []FailureBlind
    /\ [][StoreCalls(ops') # {}
            => LET c == ops'[CHOOSE k \in StoreCalls(ops') : TRUE]
               IN /\ Cardinality(StoreCalls(ops')) = 1
                  /\ workouts' = InMemory(workouts, c)
                  /\ remote' = IF remoteUp THEN AtRemote(remote, c)
                                ELSE remote]_vars

\* C14 witness: an insert was made while the remote table was unreachable;
\* the collection holds the record, the table does not, the draft is dirty.
C14_Witness ==
    /\ ~remoteUp /\ mounted /\ isDirtyRef
    /\ \E k \in Upserts :
          /\ ops[k].op = "add" /\ ops[k].by = "AddExercise"
          /\ ops[k].w = workout
          /\ Exists(workouts, ops[k].w.id)
          /\ \A r \in remote : r.id # ops[k].w.id

----------------------------------------------------------------------------
\* The long-press detector.  A pointer session runs from a pointer-down to
\* the next one.

\* C15: in a pointer session, whatever the order of the hold timer and the
\* pointer events, callback is called at most once, and callback and onClick
\* are not both called.
C15_LongPressExclusive ==
    /\ lp.longPresses <= 1
    /\ ~(lp.longPresses >= 1 /\ lp.taps >= 1)

\* The part of C15 the detector keeps: callback is called at most once.
LongPressAtMostOnce == lp.longPresses <= 1

\* The hold timer fires.
HoldElapses == \E h \in lp.timers : LpTimerFire(h)

\* C16: when the hold timer of a session fires, callback is called, once for
\* the session, and the pointer-up that follows does not call onClick.
C16_HoldCallsLongPressOnly ==
    [][/\ HoldElapses => (lp.longPresses = 0 /\ lp'.longPresses = 1)
       /\ (LpUp /\ lp.longPresses >= 1) => lp'.taps = 0]_vars

\* The part of C16 the detector keeps: the hold timer calls callback once,
\* and a pointer-up that comes after the render of the disarmed detector
\* does not call onClick.
HoldCallsLongPressOnlyOnceRendered ==
    [][/\ HoldElapses => (lp.longPresses = 0 /\ lp'.longPresses = 1)
       /\ (LpUp /\ lp.longPresses >= 1 /\ ~lp.seen) => lp'.taps = 0]_vars

Unbroken == ~lp.moved /\ ~lp.left /\ lp.longPresses = 0

\* An unbroken session has ended with a tap.
Tapped == lp.mounted /\ lp.startPos = NoPos /\ lp.taps >= 1 /\ Unbroken

\* C18: in every session of a detector, the first as well as the later
\* ones, a pointer-up that ends an unbroken session calls onClick once and
\* leaves no hold timer, and callback is not called in a session that has
\* ended with a tap.
C18_TapCancelsHold ==
    /\ [][(LpUp /\ Unbroken) => (lp'.taps = 1 /\ lp'.timers = {})]_vars
    /\ [](Tapped => (lp.taps = 1 /\ lp.timers = {}))
    /\ [][Tapped => (lp'.longPresses = 0 /\ lp'.taps <= 1)]_vars

\* A session has ended with a tap.
C18_Witness == Tapped /\ lp.timerRef # 0 /\ ~lp.seen

\* C19: after a pointer-leave the session has no hold timer and is
\* disarmed, and neither callback nor onClick is called in it afterwards,
\* at a later pointer-up included.
C19_LeaveCancels ==
    /\ [][LpLeave =>
            (lp'.timers = {} /\ ~lp'.startLongPress /\ ~lp'.seen)]_vars
    /\ [][(lp.left /\ lp'.left) =>
            (/\ lp'.longPresses = lp.longPresses
             /\ lp'.taps = lp.taps
             /\ lp'.timers = {})]_vars

\* A session the pointer has left while armed has seen its pointer-up.
C19_Witness ==
    /\ lp.mounted
    /\ lp.left
    /\ lp.startPos = NoPos
    /\ lp.longPresses = 0
    /\ lp.taps = 0

----------------------------------------------------------------------------
\* The swipe detector.

\* The pointer-up of a completed drag: the pointer has gone down and moved.
DragEnds == SwUp /\ sw.touchStart # NoPos /\ sw.touchEnd # NoPos

\* The drag's distances, start minus end.
DragX == sw.touchStart[1] - sw.touchEnd[1]

DragY == sw.touchStart[2] - sw.touchEnd[2]

\* The drag's magnitude on its dominant axis.
Dominant == IF Abs(DragX) > Abs(DragY) THEN Abs(DragX) ELSE Abs(DragY)

\* The drag's direction: horizontal iff |dx| > |dy|.
Direction ==
    IF Abs(DragX) > Abs(DragY)
    THEN IF DragX > 0 THEN "left" ELSE "right"
    ELSE IF DragY > 0 THEN "up" ELSE "down"

\* C20 as first stated: a completed drag of at least 50 on its dominant
\* axis calls the callback of its direction, once, and no other.
C20_SwipeCallsItsDirection ==
    [][(DragEnds /\ Dominant >= minSwipeDistance)
           => sw'.fired = << Direction >>]_vars

\* C20: a completed drag of at least 50 on its dominant axis calls the
\* callback of its direction once if the detector was given that callback,
\* and calls no other callback.
C20_SwipeCallsItsDirectionIfGiven ==
    [][(DragEnds /\ Dominant >= minSwipeDistance)
           => sw'.fired = IF Direction \in sw.provided
                          THEN << Direction >> ELSE << >>]_vars

\* The drag dx = -80, dy = 5 has called swipe-right and nothing else.
C20_Witness ==
    /\ ~sw.pressed
    /\ sw.touchStart = << 50, 5 >>
    /\ sw.touchEnd = << 130, 0 >>
    /\ sw.fired = << "right" >>

\* C21: a pointer-up calls no callback when no pointer-move was seen since
\* the pointer-down, or when the drag is shorter than 50 on its dominant
\* axis, whatever its length on the other axis; and a pointer-up never calls
\* more than one callback.
C21_SwipeFailsSilently ==
    [][SwUp =>
         /\ sw.touchEnd = NoPos => sw'.fired = << >>
         /\ (DragEnds /\ Dominant < minSwipeDistance) => sw'.fired = << >>
         /\ Len(sw'.fired) <= 1]_vars

\* A detector with all four callbacks has seen a pointer-down and a
\* pointer-up with no move between them, and has called nothing.
C21_Witness ==
    /\ sw.provided = Directions
    /\ ~sw.pressed
    /\ sw.touchStart # NoPos
    /\ sw.touchEnd = NoPos
    /\ sw.fired = << >>

\* A drag of 49 by 5 has been released on a detector with all four
\* callbacks.
ShortDragReleased ==
    /\ sw.provided = Directions
    /\ ~sw.pressed
    /\ sw.touchStart = << 1, 0 >>
    /\ sw.touchEnd = << 50, 5 >>
    /\ sw.fired = << >>

----------------------------------------------------------------------------
\* The list item that reveals its actions.

Resting == {-ACTION_WIDTH, 0, ACTION_WIDTH}

\* The pointer is released, or cancelled, under the horizontal lock.
ReleaseLocked ==
    (SiUp \/ SiCancel) /\ si.isDragging /\ si.lockedAxis = "x"

\* The net drag at release, and whether its velocity is above the opening
\* velocity: |d| / elapsed > VELOCITY_OPEN.
NetDrag == si.offsetXRef - si.baseOffset

Flick == Abs(NetDrag) > VELOCITY_OPEN * (now - si.startTime)

\* C22: at a release under the horizontal lock the drag started from -W, 0
\* or +W, and the resting offset is +W if the offset exceeds OPEN_THRESHOLD
\* or the net drag exceeds 12 px at more than the opening velocity, -W under
\* the symmetric condition, and 0 otherwise.
C22_SnapDecision ==
    [][ReleaseLocked =>
         /\ si.baseOffset \in Resting
         /\ si'.offsetXRef =
              IF \/ si.offsetXRef > OPEN_THRESHOLD
                 \/ (NetDrag > 12 * Px /\ Flick)
              THEN ACTION_WIDTH
              ELSE IF \/ si.offsetXRef < -OPEN_THRESHOLD
                      \/ (NetDrag < -(12 * Px) /\ Flick)
              THEN -ACTION_WIDTH
              ELSE 0]_vars

\* A row drawn at OPEN_THRESHOLD + 1 px from the closed position has been
\* released and rests at +W.
C22_Witness ==
    /\ ~si.pressed
    /\ ~si.isDragging
    /\ si.baseOffset = 0
    /\ si.offsetX = OPEN_THRESHOLD + Px
    /\ si.offsetXRef = ACTION_WIDTH
    /\ si.called = << >>

\* A row drawn at OPEN_THRESHOLD - 1 px has been released after 50 ms and
\* rests closed.
SlowReleaseBelowThreshold ==
    /\ ~si.pressed
    /\ ~si.isDragging
    /\ si.baseOffset = 0
    /\ si.offsetX = OPEN_THRESHOLD - Px
    /\ si.offsetXRef = 0
    /\ now >= si.startTime + DragTick

\* The same row released in the millisecond of its pointer-down rests at +W.
FlickBelowThreshold ==
    /\ ~si.pressed
    /\ ~si.isDragging
    /\ si.baseOffset = 0
    /\ si.offsetX = OPEN_THRESHOLD - Px
    /\ si.offsetXRef = ACTION_WIDTH
    /\ now = si.startTime

\* A settle: a release or a cancel of a drag, the click on the row, or the
\* click on an action button.
Settle ==
    \/ (SiUp \/ SiCancel) /\ si.isDragging
    \/ SiClick
    \/ SiCopy
    \/ SiDelete

WithinActionWidth(x) == -ACTION_WIDTH <= x /\ x <= ACTION_WIDTH

\* C23: the offset, and the offset drawn, always lie in [-W, +W]; every
\* settle leaves the offset at -W, 0 or +W, where it stays while the pointer
\* is up, and where the row is drawn once the animation frame has run.
C23_SettlesAtRest ==
    /\ [][Settle => si'.offsetXRef \in Resting]_vars
    /\ [](/\ WithinActionWidth(si.offsetXRef)
          /\ WithinActionWidth(si.offsetX)
          /\ ~si.pressed => si.offsetXRef \in Resting
          /\ ~si.raf => si.offsetX = si.offsetXRef)

\* A row drawn between two resting offsets has been released and has
\* settled; its animation frame is still to come.
C23_Witness ==
    /\ ~si.pressed
    /\ si.raf
    /\ si.offsetX \notin Resting
    /\ si.offsetXRef \in Resting
    /\ si.called = << >>
    /\ ~si.stopped

\* A drag from +W further to the right is held at +W.
HeldAtActionWidth ==
    /\ si.pressed
    /\ si.lockedAxis = "x"
    /\ si.baseOffset = ACTION_WIDTH
    /\ si.offsetXRef = ACTION_WIDTH
    /\ si.raf

\* C25: a click on the copy button calls onSwipeRight once, and nothing
\* else, and sets the offset to 0; a click on the delete button does the
\* same with onSwipeLeft; whatever isDragging, the axis lock and the base
\* offset are, and these are left as they were.
C25_ActionButtons ==
    [][/\ SiCopy => (si'.called = << "copy" >> /\ si'.offsetXRef = 0)
       /\ SiDelete => (si'.called = << "delete" >> /\ si'.offsetXRef = 0)
       /\ (SiCopy \/ SiDelete) =>
            /\ si'.isDragging = si.isDragging
            /\ si'.lockedAxis = si.lockedAxis
            /\ si'.baseOffset = si.baseOffset]_vars

\* The copy button has been clicked during a horizontal drag from +W.
C25_Witness ==
    /\ si.called = << "copy" >>
    /\ si.isDragging
    /\ si.lockedAxis = "x"
    /\ si.baseOffset = ACTION_WIDTH
    /\ si.offsetXRef = 0

\* The delete button of a row at rest at -W has been clicked.
DeleteClickedAtRest ==
    /\ si.called = << "delete" >>
    /\ ~si.isDragging
    /\ si.offsetX = -ACTION_WIDTH
    /\ si.offsetXRef = 0

\* The lock a first decisive move to p gives: none while |dx| and |dy| are
\* both below 6 px, horizontal if |dx| > 1.2 |dy|, vertical otherwise.
LockFor(p) ==
    LET adx == Abs(p[1] - si.start[1])
        ady == Abs(p[2] - si.start[2])
    IN IF adx < 6 * Px /\ ady < 6 * Px THEN "none"
       ELSE IF 5 * adx > 6 * ady THEN "x"
       ELSE "y"

\* C29: in a drag the lock is decided by the first move that leaves the
\* 6 px noise, horizontal if |dx| > 1.2 |dy| and vertical otherwise; once
\* decided it stays until the release; and no move changes the offset under
\* a vertical lock or before a lock.
C29_AxisLock ==
    [][/\ \A p \in RevealXs \X RevealYs :
            (SiMove(p) /\ si.lockedAxis = "none")
                => si'.lockedAxis = LockFor(p)
       /\ (si.lockedAxis # "none" /\ si'.pressed)
            => si'.lockedAxis = si.lockedAxis
       /\ ((\E p \in RevealXs \X RevealYs : SiMove(p))
                /\ si.lockedAxis # "x")
            => (/\ si'.offsetXRef = si.offsetXRef
                /\ si'.offsetX = si.offsetX
                /\ si'.raf = si.raf)]_vars

\* A revealed row is under a vertical lock, its pointer back at a place
\* that would lock horizontally.
C29_Witness ==
    /\ si.pressed
    /\ si.lockedAxis = "y"
    /\ si.offsetXRef = ACTION_WIDTH
    /\ si.start = << 0, 0 >>

\* A row under a horizontal lock has been drawn.
DrawnUnderHorizontalLock ==
    /\ si.pressed
    /\ si.lockedAxis = "x"
    /\ si.offsetXRef \notin Resting

----------------------------------------------------------------------------
\* The rows of the history list.

\* The pointer-up of a tap on the row: no horizontal lock.
TapUp == RowUp /\ si.lockedAxis # "x"

\* C24: the pointer-up of a tap on a row whose offset is not 0 sets the
\* offset to 0 and does not call the row's onClick, its navigation; the
\* pointer-up of a tap on an armed row whose offset is 0 calls it.
C24_TapOnRevealedCloses ==
    [][/\ (TapUp /\ si.offsetXRef # 0)
            => (si'.offsetXRef = 0 /\ lp'.taps = lp.taps)
       /\ (TapUp /\ si.offsetXRef = 0 /\ Unbroken)
            => (si'.offsetXRef = 0 /\ lp'.taps = lp.taps + 1)]_vars

\* The part of C24 the row keeps: the tap on a revealed row closes it, and
\* the tap on a closed row calls onClick.
TapClosesOrNavigates ==
    [][/\ (TapUp /\ si.offsetXRef # 0) => si'.offsetXRef = 0
       /\ (TapUp /\ si.offsetXRef = 0 /\ Unbroken)
            => (si'.offsetXRef = 0 /\ lp'.taps = lp.taps + 1)]_vars

----------------------------------------------------------------------------
\* The editor, continued.

\* C30: resuming a completed draft sets completed to false and leaves every
\* other field of the draft as it was, elapsedSeconds, exercises, title and
\* note included; startTimestamp was null and stays null, so the timer is
\* not started.
C30_ResumeKeepsTimer ==
    [][Resume =>
         /\ workout.startTimestamp = 0
         /\ workout' = [workout EXCEPT !.completed = FALSE]
         /\ workout'.startTimestamp = 0
         /\ workout'.elapsedSeconds = workout.elapsedSeconds]_vars

\* A draft with time on its clock and an exercise has been resumed.
C30_Witness ==
    /\ mounted
    /\ ~workout.completed
    /\ workout.startTimestamp = 0
    /\ workout.elapsedSeconds > 0
    /\ Len(workout.exercises) > 0
    /\ Len(ops) > 0
    /\ ops[Len(ops)].by = "Resume"

\* A step of one of the local edit handlers.
LocalEdit ==
    \/ \E v \in Texts : EditTitle(v) \/ EditNote(v)
    \/ \E i \in 1..MaxExercises : RemoveExercise(i) \/ AddSet(i)
    \/ AddExercise
    \/ \E i \in 1..MaxExercises, j \in 1..MaxSets, f \in SetFields :
          \E v \in SetValues(f) : UpdateSet(i, j, f, v)
    \/ \E i \in 1..MaxExercises, j \in 1..MaxSets : DeleteSet(i, j)
    \/ ToggleTimer

\* C27: every local edit handler leaves isDirty true and raises the edit
\* counter by exactly 1; in an editor instance the counter never decreases,
\* and a hydration or a flush leaves it as it was.
C27_EditsMarkDirty ==
    [][/\ LocalEdit => (isDirtyRef' /\ editSeqRef' = editSeqRef + 1)
       /\ (mounted /\ mounted') => editSeqRef' >= editSeqRef
       /\ (mounted /\ (HydratesFromStore \/ InitialisesNew \/ FlushStep))
            => editSeqRef' = editSeqRef]_vars

\* An instance with two edits behind it has been flushed and is clean.
C27_Witness ==
    /\ mounted
    /\ editSeqRef >= 2
    /\ ~isDirtyRef
    /\ Len(ops) > 0
    /\ ops[Len(ops)].by = "DebounceFire"

\* An instance with an edit behind it has hydrated from the store.
HydratedAfterEdit ==
    /\ mounted
    /\ editSeqRef >= 1
    /\ loadedIdRef = ExistingId
    /\ workout.id = ExistingId
    /\ ~isDirtyRef

\* A step in which the hydration effect replaces the working copy, by a
\* fresh 'new' draft or by a copy of a store record.
HydrationStep == HydratesFromStore \/ InitialisesNew

\* The calls of the store's addWorkout, updateWorkout and deleteWorkout in
\* the last step.
StoreOps(o) == {k \in 1..Len(o) : o[k].op \in {"add", "update", "delete"}}

\* A step that saves by itself: an edit that saves, an explicit save, or a
\* flush.
SavingStep ==
    AddExercise \/ ToggleTimer \/ Finish \/ Resume \/ FlushStep

\* C28: a hydration step leaves isHydrating true and no debounce timer
\* pending, and calls the store only if the step is itself a save; while
\* the draft stays clean, no step but an explicit save schedules a timer or
\* calls the store; and the tick that follows a hydration clears
\* isHydrating.
C28_HydrationDoesNotSave ==
    [][/\ HydrationStep => (isHydratingRef' /\ ~isDirtyRef' /\ timers' = {})
       /\ (HydrationStep /\ ~SavingStep) => StoreOps(ops') = {}
       /\ (mounted /\ mounted' /\ ~isDirtyRef /\ ~isDirtyRef'
              /\ ~(Finish \/ Resume))
            => (timers' = {} /\ StoreOps(ops') = {})
       /\ ClearHydrating => ~isHydratingRef']_vars

\* A copy of a store record has been hydrated, the tick has cleared
\* isHydrating, and nothing is pending.
C28_Witness ==
    /\ mounted
    /\ loadedIdRef = ExistingId
    /\ workout.id = ExistingId
    /\ ~isHydratingRef
    /\ ~isDirtyRef
    /\ editSeqRef = 0
    /\ timers = {}
    /\ ops = << >>

\* The editor with its timers: a debounce timer that is pending fires, and
\* so does the setTimeout(.., 0) of a hydration.
SpecLive ==
    /\ Init
    /\ [][Next]_vars
    /\ WF_vars(FlushStep)
    /\ WF_vars(ClearHydrating)

\* The draft is dirty after its n-th edit, in a mounted editor, with an
\* exercise.
DirtyAt(n) ==
    /\ mounted
    /\ isDirtyRef
    /\ editSeqRef = n
    /\ Len(workout.exercises) >= 1

\* The draft has been flushed, or the editor has gone, or another edit has
\* come, or the draft has no exercise left.
SettledAt(n) ==
    \/ ~isDirtyRef
    \/ ~mounted
    \/ editSeqRef # n
    \/ Len(workout.exercises) = 0

\* C26: while the editor stays mounted, the draft keeps an exercise and no
\* further edit arrives, a dirty draft is eventually flushed and isDirty
\* becomes false, the edit that came while isHydrating was true included.
C26_DirtyEventuallyFlushed ==
    \A n \in 0..MaxEdits : DirtyAt(n) ~> SettledAt(n)

\* The part of C26 the editor keeps: a dirty draft whose last edit has
\* scheduled a debounce timer is eventually flushed.
ScheduledEditEventuallyFlushed ==
    \A n \in 0..MaxEdits :
        (DirtyAt(n) /\ \E t \in timers : t.seq = n) ~> SettledAt(n)

\* ------------------------------------------------------------------------
\* GymProvider and its requests in flight (src/App.tsx:98-112, 178-270)

Dates == {0, 1}

\* Variant: a copy that keeps the sets' completion marks.
copyWorkoutKeepingSets(s, i, d) ==
    IF ~Exists(s.workouts, i) THEN s
    ELSE LET source == Find(s.workouts, i)
             newWorkout ==
                 [source EXCEPT !.id = generateId(s), !.date = d,
                                !.completed = FALSE, !.elapsedSeconds = 0,
                                !.startTimestamp = 0]
         IN addWorkout(s, newWorkout)

copyWorkout(s, i, d) ==
    IF ~Exists(s.workouts, i) THEN s
    ELSE LET source == Find(s.workouts, i)
             Fresh(ex) ==
                 [ex EXCEPT !.sets = [j \in 1..Len(ex.sets) |->
                                        [ex.sets[j] EXCEPT !.completed = FALSE]]]
             newWorkout ==
                 [source EXCEPT !.id = generateId(s), !.date = d,
                                !.completed = FALSE, !.elapsedSeconds = 0,
                                !.startTimestamp = 0,
                                !.exercises = [e \in 1..Len(source.exercises) |->
                                                 Fresh(source.exercises[e])]]
         IN addWorkout(s, newWorkout)

\* What an editor has changed in the record it saves: the title, or the
\* completion mark of the first set.
Changes == {"title", "set"}

Changed(w, v) ==
    IF v = "title" THEN [w EXCEPT !.title = 1]
    ELSE [w EXCEPT !.exercises[1].sets[1].completed = TRUE]

\* A call on the provider by a view that renders the current collection: s
\* is the state after the call.  The collection changes at once; each
\* request to the remote table is sent and reaches it later.
SyncStep(s, name) ==
    LET calls == StoreCalls(s.ops)
        Sent(k) == [n |-> inflight.issued + k,
                    c |-> [op |-> s.ops[k].op, w |-> s.ops[k].w]]
    IN /\ inflight.issued + Cardinality(calls) <= MaxWrites
       /\ workouts' = s.workouts
       /\ ops' = [k \in 1..Len(s.ops) |-> [s.ops[k] EXCEPT !.by = name]]
       /\ inflight' = [issued |-> inflight.issued + Cardinality(calls),
                       pending |-> inflight.pending \cup {Sent(k) : k \in calls}]
       /\ UNCHANGED << remote, fetched, mounted, id, workout, showReport,
                       loadedIdRef, isHydratingRef, isDirtyRef, editSeqRef,
                       autosaveTimerRef, timers, now, disposed, routeChanges,
                       lp, ranSeconds, sw, remoteUp, si >>

\* An editor saves a draft of its own.
SyncSaveNew ==
    /\ HasFreshId(Cur)
    /\ LET w == [NewWorkout(generateId(Cur)) EXCEPT
                    !.exercises = << NewInstance >>]
       IN SyncStep(saveWorkoutToContext(Cur, w, Exists(workouts, w.id)),
                   "SyncSaveNew")

\* An editor saves the record i it has loaded and changed.
SyncSave(i, v) ==
    /\ Exists(workouts, i)
    /\ LET w == Changed(Find(workouts, i), v)
       IN SyncStep(saveWorkoutToContext(Cur, w, Exists(workouts, w.id)),
                   "SyncSave")

\* confirmDelete of a list view.
SyncDelete(i) ==
    /\ Exists(workouts, i)
    /\ SyncStep(deleteWorkout(Cur, i), "SyncDelete")

\* confirmCopy of a list view; the selected record may be gone by then.
SyncCopy(i, d) ==
    /\ Exists(workouts, i) => HasFreshId(Cur)
    /\ SyncStep(copyWorkout(Cur, i, d), "SyncCopy")

\* A request reaches the remote table.
Deliver(m) ==
    /\ m \in inflight.pending
    /\ remote' = AtRemote(remote, m.c)
    /\ inflight' = [inflight EXCEPT !.pending = @ \ {m}]
    /\ ops' = << >>
    /\ UNCHANGED << workouts, fetched, mounted, id, workout, showReport,
                    loadedIdRef, isHydratingRef, isDirtyRef, editSeqRef,
                    autosaveTimerRef, timers, now, disposed, routeChanges,
                    lp, ranSeconds, sw, remoteUp, si >>

\* The requests reach the remote table in the order they were sent.
DeliverInOrder(m) ==
    /\ \A o \in inflight.pending : m.n <= o.n
    /\ Deliver(m)

WritesNext ==
    \/ SyncSaveNew
    \/ \E i \in IdsOf(workouts), v \in Changes : SyncSave(i, v)
    \/ \E i \in IdsOf(workouts) : SyncDelete(i)
    \/ \E i \in {ExistingId, GenIds[1]}, d \in Dates : SyncCopy(i, d)
    \/ \E m \in inflight.pending : Deliver(m)

\* The views of a signed-in user write to a loaded collection.
SpecWrites == InitClock /\ [][WritesNext]_vars

WritesInOrderNext ==
    \/ SyncSaveNew
    \/ \E i \in IdsOf(workouts), v \in Changes : SyncSave(i, v)
    \/ \E i \in IdsOf(workouts) : SyncDelete(i)
    \/ \E i \in {ExistingId, GenIds[1]}, d \in Dates : SyncCopy(i, d)
    \/ \E m \in inflight.pending : DeliverInOrder(m)

SpecWritesInOrder == InitClock /\ [][WritesInOrderNext]_vars

SyncNext ==
    \/ SyncSaveNew
    \/ \E i \in IdsOf(workouts), v \in Changes : SyncSave(i, v)
    \/ \E i \in IdsOf(workouts) : SyncDelete(i)
    \/ \E i \in {ExistingId, GenIds[1]}, d \in Dates : SyncCopy(i, d)
    \/ \E m \in inflight.pending : Deliver(m)
    \/ FetchIssue
    \/ FetchDone

\* The same, while the collection is refreshed from the remote table.
SpecSync == InitClock /\ [][SyncNext]_vars

\* ------------------------------------------------------------------------
\* Pointer-cancel on a long-press row (useLongPress, src/App.tsx:1890-1916)

\* C31: a session the browser has cancelled is destroyed: from the
\* pointer-cancel on, neither callback (onLongPress) nor onClick (onTap) is
\* called for it, the hold timer armed at pointer-down included.
C31_CancelDestroysSession ==
    [][(lp.cancelled /\ lp'.cancelled) =>
          (/\ lp'.longPresses = lp.longPresses
           /\ lp'.taps = lp.taps)]_vars

\* What the hook does guarantee: no tap follows a cancel, and once a
\* pointer-leave has followed the cancel nothing is called any more.
CancelNeverTaps ==
    [][(lp.cancelled /\ lp'.cancelled) => lp'.taps = lp.taps]_vars

CancelThenLeaveDestroys ==
    [][(lp.cancelled /\ lp.left /\ lp'.cancelled) =>
          lp'.longPresses = lp.longPresses]_vars

\* ------------------------------------------------------------------------
\* Identities in the collection (GymProvider, src/App.tsx:98-112, 178-270)

\* C32: the in-memory collection never holds two records with the same
\* identity, whatever the order of the writes, the flushes and the
\* refreshes.
C32_IdentitiesUnique ==
    \A j, k \in 1..Len(workouts) : workouts[j].id = workouts[k].id => j = k

\* The one way a second record of an identity gets in: an addWorkout for an
\* identity the collection already holds, the insert a flush chooses from
\* the collection of the render that made it.
DuplicateOnlyByStaleInsert ==
    [][(C32_IdentitiesUnique /\ ~C32_IdentitiesUnique') =>
          \E k \in 1..Len(ops') :
              /\ ops'[k].op = "add"
              /\ Exists(workouts, ops'[k].w.id)]_vars

\* ------------------------------------------------------------------------
\* Refresh against optimistic writes (fetchData, src/App.tsx:98-112)

\* C33: a refresh that completes leaves every record of the collection in
\* it, with the content it had: the records are those read from the remote
\* table earlier and those added or updated locally since, the ones whose
\* request had not reached the table when the read was issued included.
C33_RefreshKeepsLocalWrites ==
    [][RefreshStep =>
          \A k \in 1..Len(workouts) :
              /\ Exists(workouts', workouts[k].id)
              /\ Find(workouts', workouts[k].id) = workouts[k]]_vars

\* A refresh makes the collection what the remote table was when the read
\* was issued, whatever has been written locally since.
RefreshInstallsSnapshot ==
    [][RefreshStep => workouts' = fetched.rows]_vars

\* ------------------------------------------------------------------------
\* Agreement of the remote table with the collection (src/App.tsx:178-227)

\* The remote table holds exactly the records of the collection.
Agree == remote = {workouts[k] : k \in 1..Len(workouts)}

\* C34: once no request is in flight, the remote table holds, for each
\* identity, the record the collection holds for it, and none for an
\* identity the collection has deleted, in whatever order the requests
\* have reached the table.
C34_RemoteAgreesWhenQuiet == inflight.pending = {} => Agree

\* The remote table once the requests in pend have reached it in the order
\* they were sent.
RECURSIVE Delivered(_, _)
Delivered(rows, pend) ==
    IF pend = {} THEN rows
    ELSE LET m == CHOOSE m \in pend : \A o \in pend : m.n <= o.n
         IN Delivered(AtRemote(rows, m.c), pend \ {m})

\* Under SpecWritesInOrder, where the requests reach the table in the order
\* they were sent, the table is always on its way to the collection.
AgreesWhenDeliveredInOrder ==
    Delivered(remote, inflight.pending) = {workouts[k] : k \in 1..Len(workouts)}

\* ------------------------------------------------------------------------
\* copyWorkout (src/App.tsx:253-270)

\* Every set of every exercise of w is marked not completed.
NoSetCompleted(w) ==
    \A e \in 1..Len(w.exercises) :
        \A j \in 1..Len(w.exercises[e].sets) :
            ~w.exercises[e].sets[j].completed

\* What copyWorkout(i, d) leaves in the collection.
Copied(i, d) ==
    IF Exists(workouts, i)
    THEN /\ Len(workouts') = Len(workouts) + 1
         /\ \A k \in 1..Len(workouts) : workouts'[k] = workouts[k]
         /\ LET new == workouts'[Len(workouts')]
            IN /\ new.id \notin IdsOf(workouts)
               /\ new.date = d
               /\ ~new.completed
               /\ new.elapsedSeconds = 0
               /\ new.startTimestamp = 0
               /\ NoSetCompleted(new)
    ELSE /\ workouts' = workouts
         /\ inflight' = inflight

\* C38: copyWorkout(i, d) for an identity the collection holds appends one
\* record with a new identity, the date d, not completed, no elapsed time,
\* no running timer and no set completed, and leaves every other record as
\* it was; for an identity the collection does not hold it changes nothing.
C38_CopyAppendsFreshRecord ==
    [][\A i \in {ExistingId, GenIds[1]}, d \in Dates :
          SyncCopy(i, d) => Copied(i, d)]_vars

\* C38 witness: a record with elapsed time, a completed set and a timer that
\* runs or a workout that is finished has just been copied to another date.
C38_Witness ==
    /\ Len(workouts) = 2
    /\ Len(ops) = 1
    /\ ops[1].by = "SyncCopy"
    /\ workouts[2] = ops[1].w
    /\ workouts[2].date = 1
    /\ workouts[1].date = 0
    /\ workouts[1].elapsedSeconds > 0
    /\ workouts[1].completed \/ workouts[1].startTimestamp # 0
    /\ ~NoSetCompleted(workouts[1])

\* ------------------------------------------------------------------------
\* Actions of a list item need their own tap (src/App.tsx:2046-2110)

\* C36: a release, or a cancel, of the pointer calls neither onSwipeRight
\* (copy) nor onSwipeLeft (delete), whatever the drag was; an event of the
\* item calls a callback only when it is the click on that callback's button.
C36_ReleaseNeverActs ==
    [][/\ (SiUp \/ SiCancel) => si'.called = << >>
       /\ (si' # si /\ si'.called # << >>) => (SiCopy \/ SiDelete)]_vars

\* C36 witness: a drag from the closed position has been released and has
\* opened the row to the right; nothing has been called.
C36_Witness ==
    /\ ~si.pressed
    /\ ~si.isDragging
    /\ si.lockedAxis = "none"
    /\ si.baseOffset = 0
    /\ si.offsetXRef = ACTION_WIDTH
    /\ si.raf
    /\ si.called = << >>

\* ------------------------------------------------------------------------
\* Range of the offset (setOffset, src/App.tsx:1994-2003)

\* Offsets asked of setOffset, from three widths to the left to three
\* widths to the right, and the first ones beyond either edge.
Asked ==
    {k * ACTION_WIDTH : k \in -3..3}
        \cup {ACTION_WIDTH + 1, -ACTION_WIDTH - 1, ACTION_WIDTH + 9, -ACTION_WIDTH - 9}

\* C37: the offset setOffset keeps, and the offset drawn, lie in
\* [-ACTION_WIDTH, +ACTION_WIDTH] in every state, the states in the middle
\* of a horizontal drag included, and whatever offset is asked of setOffset.
C37_OffsetWithinActionWidth ==
    /\ -ACTION_WIDTH <= si.offsetXRef
    /\ si.offsetXRef <= ACTION_WIDTH
    /\ -ACTION_WIDTH <= si.offsetX
    /\ si.offsetX <= ACTION_WIDTH
    /\ \A x \in Asked :
          LET kept == setOffset(si, x).offsetXRef
          IN -ACTION_WIDTH <= kept /\ kept <= ACTION_WIDTH

\* C37 witness: in the middle of a horizontal drag that started at the
\* closed position the pointer is further than the width allows, and the
\* offset is held at the width.
C37_Witness ==
    /\ si.pressed
    /\ si.isDragging
    /\ si.lockedAxis = "x"
    /\ si.baseOffset = 0
    /\ si.offsetXRef = ACTION_WIDTH

\* ------------------------------------------------------------------------
\* Identity of what an editor saves (src/App.tsx:886-895, 942-957, 973-977)

\* The upserts of the collection issued by a step carry the identity i.
UpsertsCarry(o, i) ==
    \A k \in 1..Len(o) : o[k].op \in {"add", "update"} => o[k].w.id = i

\* C35: every upsert issued by a step of an editor instance mounted on the
\* existing identity carries that identity, the upserts of edits made
\* before the record has been loaded included.
C35_UpsertsCarryRouteIdentity ==
    [][(mounted /\ id = ExistingId) => UpsertsCarry(ops', ExistingId)]_vars

\* Once the instance has loaded the record, what it upserts carries the
\* record's identity.
UpsertsCarryIdentityOnceLoaded ==
    [][(mounted /\ id = ExistingId /\ loadedIdRef = ExistingId) =>
          UpsertsCarry(ops', ExistingId)]_vars

====
